---- MODULE Spec2Model ----
\* gcal-mcp-server: the line-oriented tool-call server (internal/mcp) and the
\* event-mutation engine behind it (internal/calendar).
EXTENDS Integers, Sequences, FiniteSets, TLC

VARIABLES
    pc,        \* position of Server.Run: "scan" | "line" | "send" | "eof" | "failed" | "exited"
               \* (of a call of DetectOverlaps alone: "detect" | "detected")
    lineNo,    \* number of lines scanner.Scan has delivered so far
    line,      \* the line delivered by the last Scan (text as structured data)
    input,     \* what the lines read so far were: [kind, method], see Category
    response,  \* the *Response built by handleRequest, not yet written
    out,       \* the lines written to stdout, each tagged with the input line it answers
    calls,     \* calls made to the external calendar service by the handler of the current line
    invoked,   \* input lines for which ToolHandler.HandleTool was entered
    tools,     \* Server.tools: the registered tool names
    cachedUserEmail,  \* Client.cachedUserEmail: "" until the caller's email has been fetched
    fetchFails,       \* identity fetches (Calendars.Get) the service will still fail
    fetches,          \* the identity fetches issued so far, each with its answer (TRUE: ok)
    items,            \* the events the service answers Events.List with
    overlaps          \* the map returned by the last call of Client.DetectOverlaps

\* the client's cache and the service it talks to
client == <<cachedUserEmail, fetchFails, fetches, items, overlaps>>

vars == <<pc, lineNo, line, input, response, out, calls, invoked, tools, client>>

----------------------------------------------------------------------------
\* Bounds of the model.

MaxLines == 2        \* input lines read in one run
MaxList == 2         \* elements in one attendees / recurrence array
MaxOverrides == 1    \* elements in one reminders.overrides array
MaxDay == 2          \* calendar days a start_time / end_time may name
MaxEvents == 3       \* events in one listing / one detection batch
MaxFetchFails == 1   \* identity fetches that fail before one succeeds

----------------------------------------------------------------------------
\* JSON-RPC error codes used by the server.

ParseErrorCode == -32700
MethodNotFoundCode == -32601
InvalidParamsCode == -32602

\* Request ids, as the JSON text of the id member.  NullId stands for null and
\* for no id member.  BigId is an integer that float64 does not hold.
NullId == "null"
Ids == {NullId, "7"}
BigId == "9007199254740993"

\* the id after json.Unmarshal into interface{} (a JSON number becomes the
\* nearest float64) and json.Marshal of that value
decodeId(id) == IF id = BigId THEN "9007199254740992" ELSE id

----------------------------------------------------------------------------
\* JSON values of an argument object (map[string]interface{}).  Every value is
\* [k, v]: k = "absent" (no such key), "other" (present, of a JSON type the
\* reader does not assert) or the asserted type; v is the value when k is that
\* type and a fixed filler otherwise.

Str(s) == [k |-> "str", v |-> s]
StrAbsent == [k |-> "absent", v |-> ""]
StrOther == [k |-> "other", v |-> ""]

Bool(b) == [k |-> "bool", v |-> b]
BoolAbsent == [k |-> "absent", v |-> FALSE]
BoolOther == [k |-> "other", v |-> FALSE]

Num(n) == [k |-> "num", v |-> n]
NumAbsent == [k |-> "absent", v |-> 0]

Arr(a) == [k |-> "arr", v |-> a]
ArrAbsent == [k |-> "absent", v |-> <<>>]
ArrOther == [k |-> "other", v |-> <<>>]

\* A string that is meant to hold a time: the empty string, text that is not
\* RFC 3339, or an RFC 3339 text <day>T<hour>:00:00<off> (off in hours).
EmptyText == [f |-> "empty", day |-> 0, hour |-> 0, off |-> 0]
BadText == [f |-> "bad", day |-> 0, hour |-> 0, off |-> 0]
Rfc3339(d, h, o) == [f |-> "rfc3339", day |-> d, hour |-> h, off |-> o]
DateText(d) == [f |-> "date", day |-> d, hour |-> 0, off |-> 0]
NoText == [f |-> "none", day |-> 0, hour |-> 0, off |-> 0]

TimeAbsent == [k |-> "absent", v |-> EmptyText]
TimeOther == [k |-> "other", v |-> EmptyText]

\* workingLocation: {type, label}
WLObj(t, l) == [k |-> "obj", type |-> t, label |-> l]
WLAbsent == [k |-> "absent", type |-> StrAbsent, label |-> StrAbsent]
WLOther == [k |-> "other", type |-> StrAbsent, label |-> StrAbsent]

\* focusTimeProperties: {autoDeclineMode, chatStatus, declineMessage}
FTObj(a, c, d) == [k |-> "obj", autoDeclineMode |-> a, chatStatus |-> c, declineMessage |-> d]
FTAbsent == [k |-> "absent", autoDeclineMode |-> StrAbsent, chatStatus |-> StrAbsent,
             declineMessage |-> StrAbsent]
FTOther == [k |-> "other", autoDeclineMode |-> StrAbsent, chatStatus |-> StrAbsent,
            declineMessage |-> StrAbsent]

\* reminders: {use_default, overrides: [{method, minutes}]}
OvObj(m, n) == [k |-> "obj", method |-> m, minutes |-> n]
OvOther == [k |-> "other", method |-> StrAbsent, minutes |-> NumAbsent]
RemObj(u, o) == [k |-> "obj", use_default |-> u, overrides |-> o]
RemAbsent == [k |-> "absent", use_default |-> BoolAbsent, overrides |-> ArrAbsent]
RemOther == [k |-> "other", use_default |-> BoolAbsent, overrides |-> ArrAbsent]

\* an element of attendees: an email string, an {email, response_status}
\* object, or a value of another type
AttStr(e) == [k |-> "str", v |-> e, email |-> StrAbsent, response_status |-> StrAbsent]
AttObj(e, r) == [k |-> "obj", v |-> "", email |-> e, response_status |-> r]
AttOther == [k |-> "other", v |-> "", email |-> StrAbsent, response_status |-> StrAbsent]

SeqsUpTo(S, n) == UNION {[1..m -> S] : m \in 0..n}

----------------------------------------------------------------------------
\* time.Time, time.Parse and Time.Format.  A Time is an instant (hours since
\* day 0, 00:00 UTC) with the zone offset of the text it was parsed from; the
\* zero Time is instant 0 in UTC.

ZeroTime == [unix |-> 0, off |-> 0]

\* time.Parse(time.RFC3339, text)
timeParse(text) ==
    IF text.f = "rfc3339"
    THEN [err |-> FALSE, t |-> [unix |-> text.day * 24 + text.hour - text.off, off |-> text.off]]
    ELSE [err |-> TRUE, t |-> ZeroTime]

\* t.Format(time.RFC3339): the wall clock of t in its own zone
FormatRFC3339(t) == Rfc3339((t.unix + t.off) \div 24, (t.unix + t.off) % 24, t.off)

\* t.Format("2006-01-02"): the calendar date of t in its own zone
FormatDate(t) == DateText((t.unix + t.off) \div 24)

\* t.Before(u)
Before(t, u) == t.unix < u.unix

----------------------------------------------------------------------------
\* Helper functions of tools.go; the argument is the value found under the key.

getStringOrDefault(val, defaultValue) == IF val.k = "str" THEN val.v ELSE defaultValue

getBoolOrDefault(val, defaultValue) == IF val.k = "bool" THEN val.v ELSE defaultValue

getIntOrDefault(val, defaultValue) == IF val.k = "num" THEN val.v ELSE defaultValue

\* Go values: a slice is nil or a sequence, a pointer is nil or a struct.
NilSlice == [nil |-> TRUE, s |-> <<>>]
Slice(q) == [nil |-> FALSE, s |-> q]

NilWorkingLocation == [nil |-> TRUE, Type |-> "", Label |-> ""]
NilFocusTime == [nil |-> TRUE, AutoDeclineMode |-> "", ChatStatus |-> "", DeclineMessage |-> ""]
NilReminders == [nil |-> TRUE, UseDefault |-> FALSE, Overrides |-> NilSlice]
NilConferenceData == [nil |-> TRUE, RequestID |-> "", Type |-> ""]
NilString == [nil |-> TRUE, v |-> ""]
NilBool == [nil |-> TRUE, v |-> FALSE]
NilTime == [nil |-> TRUE, v |-> ZeroTime]
Ptr(x) == [nil |-> FALSE, v |-> x]

DefaultDeclineMessage ==
    "I'm currently in focus time and unable to attend meetings. Please reach out if this is urgent."

\* the workingLocation block, parsed the same way by create and patch
parseWorkingLocation(wl) ==
    IF wl.k = "obj"
    THEN [nil |-> FALSE, Type |-> getStringOrDefault(wl.type, ""),
          Label |-> getStringOrDefault(wl.label, "")]
    ELSE NilWorkingLocation

\* fault variant of parseFocusTime: the decline message is taken as given
parseFocusTimeAsGiven(ft) ==
    IF ft.k = "obj"
    THEN [nil |-> FALSE,
          AutoDeclineMode |-> getStringOrDefault(ft.autoDeclineMode,
                                                 "declineOnlyNewConflictingInvitations"),
          ChatStatus |-> getStringOrDefault(ft.chatStatus, "doNotDisturb"),
          DeclineMessage |-> getStringOrDefault(ft.declineMessage, "")]
    ELSE NilFocusTime

parseFocusTime(ft) ==
    IF ft.k = "obj"
    THEN LET declineMessage == getStringOrDefault(ft.declineMessage, "")
         IN [nil |-> FALSE,
             AutoDeclineMode |-> getStringOrDefault(ft.autoDeclineMode,
                                                    "declineOnlyNewConflictingInvitations"),
             ChatStatus |-> getStringOrDefault(ft.chatStatus, "doNotDisturb"),
             DeclineMessage |-> IF declineMessage = "" THEN DefaultDeclineMessage
                                ELSE declineMessage]
    ELSE NilFocusTime

\* one element of reminders.overrides; a non-object leaves the zero Reminder
parseOverride(ov) ==
    IF ov.k = "obj"
    THEN [Method |-> getStringOrDefault(ov.method, "popup"),
          Minutes |-> getIntOrDefault(ov.minutes, 15)]
    ELSE [Method |-> "", Minutes |-> 0]

\* the reminders block, parsed the same way by create and patch
parseReminders(rem) ==
    IF rem.k = "obj"
    THEN [nil |-> FALSE,
          UseDefault |-> getBoolOrDefault(rem.use_default, TRUE),
          Overrides |-> IF rem.overrides.k = "arr"
                        THEN Slice([i \in DOMAIN rem.overrides.v |->
                                       parseOverride(rem.overrides.v[i])])
                        ELSE NilSlice]
    ELSE NilReminders

\* a []string argument: a non-string element leaves ""
parseStringList(arr) ==
    IF arr.k = "arr"
    THEN Slice([i \in DOMAIN arr.v |-> IF arr.v[i].k = "str" THEN arr.v[i].v ELSE ""])
    ELSE NilSlice

----------------------------------------------------------------------------
\* the visibility of a created event: "public" for a working location,
\* otherwise the argument, "default" if there is none
createVisibility(eventType, val) ==
    IF eventType = "workingLocation" THEN "public" ELSE getStringOrDefault(val, "default")

\* CalendarTools.parseEventParams: the create_event argument object to
\* EventParams.  err is "" when the arguments parse.

parseEventParams(arguments) ==
    LET eventType == getStringOrDefault(arguments.eventType, "default")
        visibility == createVisibility(eventType, arguments.visibility)
        hasStart == arguments.start_time.k = "str" /\ arguments.start_time.v.f # "empty"
        hasEnd == arguments.end_time.k = "str" /\ arguments.end_time.v.f # "empty"
        start == timeParse(arguments.start_time.v)
        end == timeParse(arguments.end_time.v)
        params == [
            CalendarID |-> getStringOrDefault(arguments.calendar_id, "primary"),
            Summary |-> getStringOrDefault(arguments.summary, ""),
            Description |-> getStringOrDefault(arguments.description, ""),
            Location |-> getStringOrDefault(arguments.location, ""),
            TimeZone |-> getStringOrDefault(arguments.timezone, "UTC"),
            AllDay |-> getBoolOrDefault(arguments.all_day, FALSE),
            Visibility |-> visibility,
            SendNotifications |-> getBoolOrDefault(arguments.send_notifications, TRUE),
            GuestCanModify |-> getBoolOrDefault(arguments.guest_can_modify, FALSE),
            GuestCanInviteOthers |-> getBoolOrDefault(arguments.guest_can_invite_others, TRUE),
            GuestCanSeeOtherGuests |-> getBoolOrDefault(arguments.guest_can_see_other_guests, TRUE),
            ColorID |-> getStringOrDefault(arguments.colorId, ""),
            EventType |-> eventType,
            WorkingLocation |-> parseWorkingLocation(arguments.workingLocation),
            FocusTimeProperties |-> parseFocusTime(arguments.focusTimeProperties),
            StartTime |-> IF hasStart /\ ~start.err THEN start.t ELSE ZeroTime,
            EndTime |-> IF hasEnd /\ ~end.err THEN end.t ELSE ZeroTime,
            Attendees |-> parseStringList(arguments.attendees),
            Recurrence |-> parseStringList(arguments.recurrence),
            Reminders |-> parseReminders(arguments.reminders),
            ConferenceData |-> NilConferenceData ]
    IN  IF hasStart /\ start.err
        THEN [err |-> "invalid start_time format", params |-> params]
        ELSE IF hasEnd /\ end.err
        THEN [err |-> "invalid end_time format", params |-> params]
        ELSE [err |-> "", params |-> params]

----------------------------------------------------------------------------
\* calendar.Event as built in memory, and its encoding on the wire.  String
\* fields that hold a time text use NoText for the empty string.

NilDateTime == [nil |-> TRUE, Date |-> NoText, DateTime |-> NoText, TimeZone |-> ""]
NilEventReminders == [nil |-> TRUE, UseDefault |-> FALSE, Overrides |-> NilSlice,
                      ForceSendFields |-> {}]
NilExtendedProperties == [nil |-> TRUE, Private |-> {}]
NilWorkingLocationProperties ==
    [nil |-> TRUE, Type |-> "", HomeOffice |-> FALSE,
     OfficeLocation |-> NilString, CustomLocation |-> NilString]

\* &calendar.Event{}
ZeroEvent == [
    Summary |-> "", Description |-> "", Location |-> "",
    Start |-> NilDateTime, End |-> NilDateTime,
    Attendees |-> NilSlice, Recurrence |-> NilSlice,
    Visibility |-> "", ColorId |-> "",
    GuestsCanModify |-> FALSE, GuestsCanInviteOthers |-> NilBool,
    GuestsCanSeeOtherGuests |-> NilBool,
    ConferenceData |-> NilConferenceData,
    Reminders |-> NilEventReminders,
    EventType |-> "", ExtendedProperties |-> NilExtendedProperties,
    Transparency |-> "",
    WorkingLocationProperties |-> NilWorkingLocationProperties,
    FocusTimeProperties |-> NilFocusTime ]

\* fault variant of buildReminders: UseDefault is never named in
\* ForceSendFields
buildRemindersUnforced(rem) ==
    IF rem.nil THEN NilEventReminders
    ELSE [nil |-> FALSE,
          UseDefault |-> IF Len(rem.Overrides.s) > 0 THEN FALSE ELSE rem.UseDefault,
          Overrides |-> IF Len(rem.Overrides.s) > 0 THEN Slice(rem.Overrides.s) ELSE NilSlice,
          ForceSendFields |-> {}]

\* the reminders step shared by CreateEvent and PatchEventDirect
buildReminders(rem) ==
    IF rem.nil THEN NilEventReminders
    ELSE LET useDefault == IF Len(rem.Overrides.s) > 0 THEN FALSE ELSE rem.UseDefault
         IN [nil |-> FALSE,
             UseDefault |-> useDefault,
             Overrides |-> IF Len(rem.Overrides.s) > 0 THEN Slice(rem.Overrides.s)
                           ELSE NilSlice,
             ForceSendFields |-> IF ~useDefault THEN {"UseDefault"} ELSE {}]

\* the working-location step shared by CreateEvent and PatchEventDirect:
\* taken only when the kind is workingLocation and the block was given
buildWorkingLocation(event, eventType, wl) ==
    IF eventType = "workingLocation" /\ ~wl.nil
    THEN [event EXCEPT
            !.Transparency = "transparent",
            !.WorkingLocationProperties =
                [nil |-> FALSE, Type |-> wl.Type,
                 HomeOffice |-> (wl.Type = "homeOffice"),
                 OfficeLocation |-> IF wl.Type = "officeLocation" THEN Ptr(wl.Label)
                                    ELSE NilString,
                 CustomLocation |-> IF wl.Type = "customLocation" THEN Ptr(wl.Label)
                                    ELSE NilString]]
    ELSE event

\* the event Client.CreateEvent hands to Events.Insert
CreateEventBody(params) ==
    LET dt(t) == IF params.AllDay
                 THEN [nil |-> FALSE, Date |-> FormatDate(t), DateTime |-> NoText,
                       TimeZone |-> params.TimeZone]
                 ELSE [nil |-> FALSE, Date |-> NoText, DateTime |-> FormatRFC3339(t),
                       TimeZone |-> params.TimeZone]
        ext == IF params.EventType # "" \/ ~params.WorkingLocation.nil
                  \/ ~params.FocusTimeProperties.nil
               THEN [nil |-> FALSE,
                     Private |->
                        (IF params.EventType # ""
                         THEN {<<"eventType", params.EventType>>} ELSE {})
                        \cup
                        (IF ~params.WorkingLocation.nil
                         THEN {<<"workingLocationType", params.WorkingLocation.Type>>,
                               <<"workingLocationLabel", params.WorkingLocation.Label>>}
                         ELSE {})
                        \cup
                        (IF ~params.FocusTimeProperties.nil
                         THEN {<<"focusTimeAutoDeclineMode",
                                 params.FocusTimeProperties.AutoDeclineMode>>,
                               <<"focusTimeChatStatus", params.FocusTimeProperties.ChatStatus>>,
                               <<"focusTimeDeclineMessage",
                                 params.FocusTimeProperties.DeclineMessage>>}
                         ELSE {})]
               ELSE NilExtendedProperties
        base == [ZeroEvent EXCEPT
            !.Summary = params.Summary,
            !.Description = params.Description,
            !.Location = params.Location,
            !.Start = dt(params.StartTime),
            !.End = dt(params.EndTime),
            !.Attendees = IF Len(params.Attendees.s) > 0
                          THEN Slice([i \in DOMAIN params.Attendees.s |->
                                        [Email |-> params.Attendees.s[i],
                                         ResponseStatus |-> ""]])
                          ELSE NilSlice,
            !.Recurrence = IF Len(params.Recurrence.s) > 0 THEN params.Recurrence
                           ELSE NilSlice,
            !.Visibility = params.Visibility,
            !.ColorId = params.ColorID,
            !.GuestsCanModify = params.GuestCanModify,
            !.GuestsCanInviteOthers = Ptr(params.GuestCanInviteOthers),
            !.GuestsCanSeeOtherGuests = Ptr(params.GuestCanSeeOtherGuests),
            !.ConferenceData = params.ConferenceData,
            !.Reminders = buildReminders(params.Reminders),
            !.EventType = params.EventType,
            !.ExtendedProperties = ext,
            !.FocusTimeProperties =
                IF params.EventType = "focusTime" /\ ~params.FocusTimeProperties.nil
                THEN params.FocusTimeProperties ELSE NilFocusTime]
    IN  buildWorkingLocation(base, params.EventType, params.WorkingLocation)

----------------------------------------------------------------------------
\* CalendarTools.parsePatchEventParams: the edit_event argument object to
\* PatchEventParams (pointer fields are nil unless the key holds the type).

\* fault variant of boolArgPtr: the create-side default is applied when the key
\* is absent, so the pointer is never nil
boolArgPtrDefaulted(val) == IF val.k = "bool" THEN [nil |-> FALSE, v |-> val.v]
                         ELSE [nil |-> FALSE, v |-> TRUE]

stringArgPtr(val) == IF val.k = "str" THEN Ptr(val.v) ELSE NilString
boolArgPtr(val) == IF val.k = "bool" THEN Ptr(val.v) ELSE NilBool

\* []AttendeeParams from the attendees array; an element that is neither a
\* string nor an object leaves the zero AttendeeParams
parseAttendee(a) ==
    IF a.k = "str" THEN [Email |-> a.v, ResponseStatus |-> "needsAction"]
    ELSE IF a.k = "obj"
    THEN [Email |-> getStringOrDefault(a.email, ""),
          ResponseStatus |-> getStringOrDefault(a.response_status, "needsAction")]
    ELSE [Email |-> "", ResponseStatus |-> ""]

\* fault variant of patchVisibility: the visibility argument is taken as given
patchVisibilityAsGiven(eventType, val) ==
    IF val.k = "str" THEN [nil |-> FALSE, v |-> val.v] ELSE NilString

\* the visibility pointer of a patch: "public" when the eventType argument is
\* "workingLocation", otherwise the argument if it is a string
patchVisibility(eventType, val) ==
    IF ~eventType.nil /\ eventType.v = "workingLocation" THEN Ptr("public") ELSE stringArgPtr(val)

parsePatchEventParams(arguments) ==
    LET eventType == stringArgPtr(arguments.eventType)
        hasStart == arguments.start_time.k = "str" /\ arguments.start_time.v.f # "empty"
        hasEnd == arguments.end_time.k = "str" /\ arguments.end_time.v.f # "empty"
        start == timeParse(arguments.start_time.v)
        end == timeParse(arguments.end_time.v)
        params == [
            CalendarID |-> getStringOrDefault(arguments.calendar_id, "primary"),
            SendNotifications |-> getBoolOrDefault(arguments.send_notifications, TRUE),
            Summary |-> stringArgPtr(arguments.summary),
            Description |-> stringArgPtr(arguments.description),
            Location |-> stringArgPtr(arguments.location),
            TimeZone |-> stringArgPtr(arguments.timezone),
            Visibility |-> patchVisibility(eventType, arguments.visibility),
            AllDay |-> boolArgPtr(arguments.all_day),
            ColorID |-> stringArgPtr(arguments.colorId),
            EventType |-> eventType,
            WorkingLocation |-> parseWorkingLocation(arguments.workingLocation),
            GuestCanModify |-> boolArgPtr(arguments.guest_can_modify),
            GuestCanInviteOthers |-> boolArgPtr(arguments.guest_can_invite_others),
            GuestCanSeeOtherGuests |-> boolArgPtr(arguments.guest_can_see_other_guests),
            StartTime |-> IF hasStart /\ ~start.err THEN Ptr(start.t) ELSE NilTime,
            EndTime |-> IF hasEnd /\ ~end.err THEN Ptr(end.t) ELSE NilTime,
            HasAttendees |-> arguments.attendees.k # "absent",
            Attendees |-> IF arguments.attendees.k = "arr"
                          THEN Slice([i \in DOMAIN arguments.attendees.v |->
                                        parseAttendee(arguments.attendees.v[i])])
                          ELSE NilSlice,
            HasRecurrence |-> arguments.recurrence.k # "absent",
            Recurrence |-> parseStringList(arguments.recurrence),
            Reminders |-> parseReminders(arguments.reminders),
            ConferenceData |-> NilConferenceData ]
    IN  IF hasStart /\ start.err
        THEN [err |-> "invalid start_time format", params |-> params]
        ELSE IF hasEnd /\ end.err
        THEN [err |-> "invalid end_time format", params |-> params]
        ELSE [err |-> "", params |-> params]

\* the event Client.PatchEventDirect hands to Events.Patch
PatchEventBody(params) ==
    LET allDay == ~params.AllDay.nil /\ params.AllDay.v
        timezone == IF params.TimeZone.nil THEN "" ELSE params.TimeZone.v
        dt(t) == IF allDay
                 THEN [nil |-> FALSE, Date |-> FormatDate(t), DateTime |-> NoText,
                       TimeZone |-> timezone]
                 ELSE [nil |-> FALSE, Date |-> NoText, DateTime |-> FormatRFC3339(t),
                       TimeZone |-> timezone]
        ext == IF ~params.EventType.nil \/ ~params.WorkingLocation.nil
               THEN [nil |-> FALSE,
                     Private |->
                        (IF ~params.EventType.nil
                         THEN {<<"eventType", params.EventType.v>>} ELSE {})
                        \cup
                        (IF ~params.WorkingLocation.nil
                         THEN {<<"workingLocationType", params.WorkingLocation.Type>>,
                               <<"workingLocationLabel", params.WorkingLocation.Label>>}
                         ELSE {})]
               ELSE NilExtendedProperties
        base == [ZeroEvent EXCEPT
            !.Summary = IF params.Summary.nil THEN "" ELSE params.Summary.v,
            !.Description = IF params.Description.nil THEN "" ELSE params.Description.v,
            !.Location = IF params.Location.nil THEN "" ELSE params.Location.v,
            !.Start = IF params.StartTime.nil THEN NilDateTime ELSE dt(params.StartTime.v),
            !.End = IF params.EndTime.nil THEN NilDateTime ELSE dt(params.EndTime.v),
            !.Attendees = IF params.HasAttendees
                          THEN Slice([i \in DOMAIN params.Attendees.s |->
                                 [Email |-> params.Attendees.s[i].Email,
                                  ResponseStatus |->
                                     IF params.Attendees.s[i].ResponseStatus = ""
                                     THEN "needsAction"
                                     ELSE params.Attendees.s[i].ResponseStatus]])
                          ELSE NilSlice,
            !.Recurrence = IF params.HasRecurrence THEN params.Recurrence ELSE NilSlice,
            !.Visibility = IF params.Visibility.nil THEN "" ELSE params.Visibility.v,
            !.ColorId = IF params.ColorID.nil THEN "" ELSE params.ColorID.v,
            !.GuestsCanModify = IF params.GuestCanModify.nil THEN FALSE
                                ELSE params.GuestCanModify.v,
            !.GuestsCanInviteOthers = params.GuestCanInviteOthers,
            !.GuestsCanSeeOtherGuests = params.GuestCanSeeOtherGuests,
            !.ConferenceData = params.ConferenceData,
            !.Reminders = buildReminders(params.Reminders),
            !.ExtendedProperties = ext]
    IN  buildWorkingLocation(base,
                             IF params.EventType.nil THEN "" ELSE params.EventType.v,
                             params.WorkingLocation)

----------------------------------------------------------------------------
\* The request body Events.Insert / Events.Patch put on the wire: the JSON
\* encoding of calendar.Event.  Every field is tagged omitempty: a field whose
\* value is empty ("", false, nil, a slice of length 0) is left out unless the
\* struct's ForceSendFields names it.  [has, v] is a key of the body.

omitStr(x) == [has |-> x # "", v |-> x]
omitText(x) == [has |-> x.f # "none", v |-> x]
omitBool(x, forced) == [has |-> x \/ forced, v |-> x]
omitBoolPtr(p) == [has |-> ~p.nil, v |-> p.v]
omitSlice(sl) == [has |-> Len(sl.s) > 0, v |-> sl.s]

MarshalEvent(event) == [
    summary |-> omitStr(event.Summary),
    description |-> omitStr(event.Description),
    location |-> omitStr(event.Location),
    start |-> [has |-> ~event.Start.nil,
               date |-> omitText(event.Start.Date),
               dateTime |-> omitText(event.Start.DateTime),
               timeZone |-> omitStr(event.Start.TimeZone)],
    end |-> [has |-> ~event.End.nil,
             date |-> omitText(event.End.Date),
             dateTime |-> omitText(event.End.DateTime),
             timeZone |-> omitStr(event.End.TimeZone)],
    attendees |-> omitSlice(event.Attendees),
    recurrence |-> omitSlice(event.Recurrence),
    visibility |-> omitStr(event.Visibility),
    colorId |-> omitStr(event.ColorId),
    guestsCanModify |-> omitBool(event.GuestsCanModify, FALSE),
    guestsCanInviteOthers |-> omitBoolPtr(event.GuestsCanInviteOthers),
    guestsCanSeeOtherGuests |-> omitBoolPtr(event.GuestsCanSeeOtherGuests),
    conferenceData |-> [has |-> ~event.ConferenceData.nil,
                        requestId |-> omitStr(event.ConferenceData.RequestID),
                        type |-> omitStr(event.ConferenceData.Type)],
    reminders |-> [has |-> ~event.Reminders.nil,
                   useDefault |-> omitBool(event.Reminders.UseDefault,
                                           "UseDefault" \in event.Reminders.ForceSendFields),
                   overrides |-> omitSlice(event.Reminders.Overrides)],
    eventType |-> omitStr(event.EventType),
    extendedProperties |-> [has |-> ~event.ExtendedProperties.nil,
                            private |-> event.ExtendedProperties.Private],
    transparency |-> omitStr(event.Transparency),
    workingLocationProperties |->
        [has |-> ~event.WorkingLocationProperties.nil,
         type |-> omitStr(event.WorkingLocationProperties.Type),
         homeOffice |-> event.WorkingLocationProperties.HomeOffice,
         officeLocation |-> [has |-> ~event.WorkingLocationProperties.OfficeLocation.nil,
                             label |-> omitStr(event.WorkingLocationProperties.OfficeLocation.v)],
         customLocation |-> [has |-> ~event.WorkingLocationProperties.CustomLocation.nil,
                             label |-> omitStr(event.WorkingLocationProperties.CustomLocation.v)]],
    focusTimeProperties |->
        [has |-> ~event.FocusTimeProperties.nil,
         autoDeclineMode |-> omitStr(event.FocusTimeProperties.AutoDeclineMode),
         chatStatus |-> omitStr(event.FocusTimeProperties.ChatStatus),
         declineMessage |-> omitStr(event.FocusTimeProperties.DeclineMessage)] ]

\* the body of a call that sends no event
NoBody == MarshalEvent(ZeroEvent)

----------------------------------------------------------------------------
\* Argument objects.  EmptyArgs is {}; every key a handler reads is a field.

EmptyArgs == [
    calendar_id |-> StrAbsent, event_id |-> StrAbsent,
    summary |-> StrAbsent, description |-> StrAbsent, location |-> StrAbsent,
    timezone |-> StrAbsent, visibility |-> StrAbsent, colorId |-> StrAbsent,
    eventType |-> StrAbsent,
    all_day |-> BoolAbsent, send_notifications |-> BoolAbsent,
    guest_can_modify |-> BoolAbsent, guest_can_invite_others |-> BoolAbsent,
    guest_can_see_other_guests |-> BoolAbsent, create_meet_link |-> BoolAbsent,
    start_time |-> TimeAbsent, end_time |-> TimeAbsent,
    attendees |-> ArrAbsent, recurrence |-> ArrAbsent,
    workingLocation |-> WLAbsent, focusTimeProperties |-> FTAbsent,
    reminders |-> RemAbsent,
    query |-> StrAbsent, domain |-> StrAbsent, max_results |-> NumAbsent,
    attendee_emails |-> ArrAbsent, time_min |-> TimeAbsent, time_max |-> TimeAbsent,
    time_filter |-> StrAbsent, order_by |-> StrAbsent, output_format |-> StrAbsent,
    show_deleted |-> BoolAbsent, show_declined |-> BoolAbsent,
    detect_overlaps |-> BoolAbsent ]

\* the values a key is given in the inputs explored (absent is added by Family)
TimeTexts == {Rfc3339(d, h, o) : d \in 1..MaxDay, h \in {1, 10}, o \in {0, 2}}
TimeVals == {TimeOther, Str(EmptyText), Str(BadText)} \cup {Str(t) : t \in TimeTexts}
BoolVals == {BoolOther, Bool(TRUE), Bool(FALSE)}
AttendeeElems == {AttStr("ann@x.io"), AttObj(Str("ann@x.io"), Str("declined")), AttOther}
OverrideElems == {OvObj(Str("email"), Num(10)), OvObj(StrAbsent, NumAbsent), OvOther}

Dom(key) ==
    CASE key = "summary" -> {StrOther, Str(""), Str("Sync")}
      [] key = "description" -> {StrOther, Str(""), Str("agenda")}
      [] key = "location" -> {StrOther, Str(""), Str("Room 1")}
      [] key = "colorId" -> {StrOther, Str(""), Str("5")}
      [] key = "timezone" -> {StrOther, Str(""), Str("Europe/Paris")}
      [] key = "visibility" -> {StrOther, Str(""), Str("private")}
      [] key = "eventType" -> {StrOther, Str("default"), Str("focusTime"),
                               Str("workingLocation")}
      [] key = "calendar_id" -> {StrOther, Str(""), Str("work")}
      [] key = "event_id" -> {StrOther, Str(""), Str("evt1")}
      [] key = "query" -> {StrOther, Str(""), Str("ann"), Str("ann@x.io")}
      [] key = "domain" -> {StrOther, Str("x.io")}
      [] key = "max_results" -> {Num(5)}
      [] key = "time_filter" -> {StrOther, Str("today"), Str("custom")}
      [] key = "order_by" -> {Str("updated")}
      [] key = "output_format" -> {Str("json"), Str("text")}
      [] key \in {"all_day", "send_notifications", "guest_can_modify",
                  "guest_can_invite_others", "guest_can_see_other_guests",
                  "create_meet_link", "show_deleted", "show_declined",
                  "detect_overlaps"} -> BoolVals
      [] key \in {"start_time", "end_time", "time_min", "time_max"} -> TimeVals
      [] key = "attendee_emails" ->
            {ArrOther} \cup {Arr(a) : a \in SeqsUpTo({Str("ann@x.io"), StrOther}, MaxList)}
      [] key = "attendees" ->
            {ArrOther} \cup {Arr(a) : a \in SeqsUpTo(AttendeeElems, MaxList)}
      [] key = "recurrence" ->
            {ArrOther} \cup {Arr(a) : a \in SeqsUpTo({Str("RRULE:FREQ=DAILY"), StrOther},
                                                     MaxList)}
      [] key = "workingLocation" ->
            {WLOther, WLObj(StrAbsent, StrAbsent), WLObj(Str("homeOffice"), StrAbsent),
             WLObj(Str("officeLocation"), Str("HQ"))}
      [] key = "focusTimeProperties" ->
            {FTOther, FTObj(StrAbsent, StrAbsent, StrAbsent),
             FTObj(StrAbsent, StrAbsent, Str("")),
             FTObj(Str("declineNone"), Str("available"), Str("busy"))}
      [] key = "reminders" ->
            {RemOther} \cup
            {RemObj(u, o) : u \in {BoolAbsent} \cup BoolVals,
                            o \in {ArrAbsent, ArrOther} \cup
                                  {Arr(a) : a \in SeqsUpTo(OverrideElems, MaxOverrides)}}

\* groups of keys whose values a handler combines; the inputs explored give
\* the keys of one group every combination of values and leave the rest absent
EventGroups == {
    <<"summary", "description", "location", "colorId">>,
    <<"eventType", "visibility", "workingLocation", "focusTimeProperties">>,
    <<"start_time", "end_time", "all_day", "timezone">>,
    <<"attendees", "recurrence">>,
    <<"reminders">>,
    <<"guest_can_modify", "guest_can_invite_others", "guest_can_see_other_guests",
      "send_notifications">> }
IdGroup == <<"event_id", "calendar_id", "send_notifications">>

RECURSIVE Family(_, _)
Family(group, n) ==
    IF n = 0 THEN {EmptyArgs}
    ELSE LET rest == Family(group, n - 1)
         IN rest \cup UNION {{[p EXCEPT ![group[n]] = val] : val \in Dom(group[n])} : p \in rest}

Families(groups) == UNION {Family(g, Len(g)) : g \in groups}

\* the argument objects explored for each tool
ToolArgs(name) ==
    CASE name = "create_event" ->
            Families(EventGroups \cup {<<"calendar_id", "create_meet_link">>})
      [] name = "edit_event" ->
            {[p EXCEPT !.event_id = Str("evt1")] : p \in Families(EventGroups)}
            \cup Family(IdGroup, Len(IdGroup))
      [] name = "delete_event" -> Family(IdGroup, Len(IdGroup))
      [] name = "search_attendees" -> Families({<<"query", "domain", "max_results">>})
      [] name = "get_attendee_freebusy" ->
            Families({<<"attendee_emails", "time_min", "time_max">>, <<"timezone">>})
      [] name = "list_events" ->
            Families({<<"time_filter", "time_min", "time_max">>,
                      <<"calendar_id", "timezone", "max_results", "order_by">>,
                      <<"show_deleted", "show_declined", "detect_overlaps",
                        "output_format">>})
      [] OTHER -> {EmptyArgs}

----------------------------------------------------------------------------
\* Client: the calls made to the external calendar service.  A call is what
\* is sent and ok, the service's answer (success or an error).

Call(op, calendarId, eventId, body, notify, confVersion, ok) ==
    [op |-> op, calendarId |-> calendarId, eventId |-> eventId, body |-> body,
     sendNotifications |-> notify, conferenceDataVersion |-> confVersion, ok |-> ok]

defaultCalendar(calendarID) == IF calendarID = "" THEN "primary" ELSE calendarID

\* Client.CreateEvent: one Events.Insert
CreateEvent(params, ok) ==
    Call("Events.Insert", defaultCalendar(params.CalendarID), "",
         MarshalEvent(CreateEventBody(params)),
         params.SendNotifications, ~params.ConferenceData.nil, ok)

\* Client.PatchEventDirect: one Events.Patch
PatchEventDirect(eventID, params, ok) ==
    Call("Events.Patch", defaultCalendar(params.CalendarID), eventID,
         MarshalEvent(PatchEventBody(params)),
         params.SendNotifications, FALSE, ok)

\* Client.DeleteEvent: one Events.Delete
DeleteEvent(calendarID, eventID, sendNotifications, ok) ==
    Call("Events.Delete", defaultCalendar(calendarID), eventID, NoBody,
         sendNotifications, FALSE, ok)

\* Client.GetEvent: one Events.Get
GetEvent(calendarID, eventID, ok) ==
    Call("Events.Get", defaultCalendar(calendarID), eventID, NoBody, FALSE, FALSE, ok)

----------------------------------------------------------------------------
\* Events as the service returns them, the caller's identity, and overlap
\* detection (Client.getUserEmail, isEventDeclined, parseEventTimes,
\* eventsOverlap, DetectOverlaps).

Attendee(email, status) == [Email |-> email, ResponseStatus |-> status]

\* *calendar.EventDateTime of a timed event, of an all-day event, and one
\* that carries neither text
TimedAt(d, h, o) == [nil |-> FALSE, Date |-> NoText, DateTime |-> Rfc3339(d, h, o), TimeZone |-> ""]
AllDayOn(d) == [nil |-> FALSE, Date |-> DateText(d), DateTime |-> NoText, TimeZone |-> ""]
Untimed == [nil |-> FALSE, Date |-> NoText, DateTime |-> NoText, TimeZone |-> ""]

FetchedEvent(id, start, end, attendees) ==
    [Id |-> id, Start |-> start, End |-> end, Attendees |-> attendees]

\* time.Parse("2006-01-02", text)
dateParse(text) ==
    IF text.f = "date"
    THEN [err |-> FALSE, t |-> [unix |-> text.day * 24, off |-> 0]]
    ELSE [err |-> TRUE, t |-> ZeroTime]

\* the id of the primary calendar, which is the caller's email
UserEmail == "me@x.io"

\* The identity as a handler sees it: cache is c.cachedUserEmail, fails is
\* the number of Calendars.Get calls the service will still fail before it
\* answers one, fetches the answers of the Calendars.Get calls the handler
\* has issued so far.
Identity(cache, fails) == [cache |-> cache, fails |-> fails, fetches |-> <<>>]

\* fault variant of getUserEmail: the cache is not read
getUserEmailUncached(st) ==
    IF st.fails > 0
    THEN [email |-> "", err |-> TRUE,
          st |-> [st EXCEPT !.fails = @ - 1, !.fetches = Append(@, FALSE)]]
    ELSE [email |-> UserEmail, err |-> FALSE,
          st |-> [st EXCEPT !.cache = UserEmail, !.fetches = Append(@, TRUE)]]

\* Client.getUserEmail
getUserEmail(st) ==
    IF st.cache # "" THEN [email |-> st.cache, err |-> FALSE, st |-> st]
    ELSE IF st.fails > 0
    THEN [email |-> "", err |-> TRUE,
          st |-> [st EXCEPT !.fails = @ - 1, !.fetches = Append(@, FALSE)]]
    ELSE [email |-> UserEmail, err |-> FALSE,
          st |-> [st EXCEPT !.cache = UserEmail, !.fetches = Append(@, TRUE)]]

\* the loop of isEventDeclined over the attendees, u being what getUserEmail
\* returned: declined by the caller, or by any attendee when the caller's
\* email cannot be fetched
declinedFor(event, u) ==
    [declined |->
        IF u.err
        THEN \E i \in DOMAIN event.Attendees :
                event.Attendees[i].ResponseStatus = "declined"
        ELSE \E i \in DOMAIN event.Attendees :
                /\ event.Attendees[i].Email = u.email
                /\ event.Attendees[i].ResponseStatus = "declined",
     st |-> u.st]

\* Client.isEventDeclined: the answer and the identity afterwards
isEventDeclined(event, st) ==
    IF Len(event.Attendees) = 0 THEN [declined |-> FALSE, st |-> st]
    ELSE declinedFor(event, getUserEmail(st))

\* fault variant of parseEventTimes: an all-day event is not marked
parseEventTimesUnmarked(event) ==
    IF event.Start.nil \/ event.End.nil
       \/ (event.Start.Date.f = "none" /\ timeParse(event.Start.DateTime).err)
    THEN [err |-> TRUE, start |-> ZeroTime, end |-> ZeroTime, allDay |-> FALSE]
    ELSE IF event.Start.Date.f # "none"
    THEN [err |-> FALSE, start |-> dateParse(event.Start.Date).t,
          end |-> dateParse(event.End.Date).t, allDay |-> FALSE]
    ELSE [err |-> FALSE, start |-> timeParse(event.Start.DateTime).t,
          end |-> timeParse(event.End.DateTime).t, allDay |-> FALSE]

\* parseEventTimes
parseEventTimes(event) ==
    LET fail == [err |-> TRUE, start |-> ZeroTime, end |-> ZeroTime, allDay |-> FALSE]
    IN  IF event.Start.nil \/ event.End.nil THEN fail
        ELSE IF event.Start.Date.f # "none"
        THEN IF dateParse(event.Start.Date).err \/ dateParse(event.End.Date).err
             THEN [fail EXCEPT !.allDay = TRUE]
             ELSE [err |-> FALSE, start |-> dateParse(event.Start.Date).t,
                   end |-> dateParse(event.End.Date).t, allDay |-> TRUE]
        ELSE IF event.Start.DateTime.f # "none"
        THEN IF timeParse(event.Start.DateTime).err \/ timeParse(event.End.DateTime).err
             THEN fail
             ELSE [err |-> FALSE, start |-> timeParse(event.Start.DateTime).t,
                   end |-> timeParse(event.End.DateTime).t, allDay |-> FALSE]
        ELSE fail

\* fault variant of eventsOverlap: touching events count as overlapping
eventsOverlapClosed(start1, end1, start2, end2) ==
    ~Before(end2, start1) /\ ~Before(end1, start2)

\* eventsOverlap
eventsOverlap(start1, end1, start2, end2) == Before(start1, end2) /\ Before(start2, end1)

\* one iteration of the first loop of DetectOverlaps: d is what
\* isEventDeclined returned for the event, t what parseEventTimes returned,
\* rest the result of the iterations after it
appendEventTime(event, showDeclined, d, t, rest) ==
    IF (~showDeclined /\ d.declined) \/ t.err THEN rest
    ELSE [rest EXCEPT !.eventTimes =
             <<[id |-> event.Id, start |-> t.start, end |-> t.end,
                declined |-> d.declined, allDay |-> t.allDay]>> \o @]

\* the first loop of DetectOverlaps from event i on: the eventTime entries
\* appended and the identity afterwards
RECURSIVE eventTimesFrom(_, _, _, _)
RECURSIVE eventTimesAfter(_, _, _, _)
eventTimesFrom(events, i, showDeclined, st) ==
    IF i > Len(events) THEN [eventTimes |-> <<>>, st |-> st]
    ELSE eventTimesAfter(events, i, showDeclined, isEventDeclined(events[i], st))

eventTimesAfter(events, i, showDeclined, d) ==
    appendEventTime(events[i], showDeclined, d, parseEventTimes(events[i]),
                    eventTimesFrom(events, i + 1, showDeclined, d.st))

\* a Go map[string]bool read at a key
Lookup(m, id) == IF id \in DOMAIN m THEN m[id] ELSE FALSE

\* the second loop of DetectOverlaps over the eventTimes built by the first
flagOverlaps(r) ==
    LET et == r.eventTimes
        hit(id) == \E i, j \in DOMAIN et :
                      /\ i < j
                      /\ ~(et[i].allDay \/ et[j].allDay)
                      /\ eventsOverlap(et[i].start, et[i].end, et[j].start, et[j].end)
                      /\ id \in {et[i].id, et[j].id}
    IN  [overlaps |-> [id \in {et[i].id : i \in DOMAIN et} |-> hit(id)], st |-> r.st]

\* fault variant of DetectOverlaps: of an overlapping pair only the event
\* that comes first is flagged
DetectOverlapsFirstOnly(events, showDeclined, st) ==
    LET r == eventTimesFrom(events, 1, showDeclined, st)
        et == r.eventTimes
        hit(id) == \E i, j \in DOMAIN et :
                      /\ i < j
                      /\ ~(et[i].allDay \/ et[j].allDay)
                      /\ eventsOverlap(et[i].start, et[i].end, et[j].start, et[j].end)
                      /\ id = et[i].id
    IN  [overlaps |-> [id \in {et[i].id : i \in DOMAIN et} |-> hit(id)], st |-> r.st]

\* Client.DetectOverlaps: the map returned and the identity afterwards
DetectOverlaps(events, showDeclined, st) ==
    flagOverlaps(eventTimesFrom(events, 1, showDeclined, st))

----------------------------------------------------------------------------
\* CalendarTools handlers.  Each yields the outcomes the handler can end in,
\* one per answer of the external service: the calls made, err ("" for nil)
\* and the text of the result.

\* the events a list_events result shows, in the order shown.  has_overlap
\* is "absent", "true" or "false"; overlapping_event_ids is a key that is
\* present or not.
NoListing == [format |-> "none", events |-> <<>>]

Outcome(cs, err, text) ==
    [calls |-> cs, err |-> err, text |-> text, listing |-> NoListing,
     cachedUserEmail |-> cachedUserEmail, fetchFails |-> fetchFails, fetches |-> <<>>]

handleCreateEvent(arguments) ==
    LET parsed == parseEventParams(arguments)
        params == IF arguments.create_meet_link.k = "bool" /\ arguments.create_meet_link.v
                  THEN [parsed.params EXCEPT !.ConferenceData =
                            [nil |-> FALSE, RequestID |-> "meet-<now>", Type |-> "hangoutsMeet"]]
                  ELSE parsed.params
    IN  IF parsed.err # ""
        THEN {Outcome(<<>>, "invalid parameters", "")}
        ELSE {Outcome(<<CreateEvent(params, TRUE)>>, "", "Event operation completed successfully"),
              Outcome(<<CreateEvent(params, FALSE)>>, "failed to create event", "")}

\* fault variant of handleEditEvent: the answer of the lookup is not read
handleEditEventUnread(arguments) ==
    LET eventID == arguments.event_id
        calendarID == getStringOrDefault(arguments.calendar_id, "primary")
        parsed == parsePatchEventParams(arguments)
    IN  IF eventID.k # "str" \/ eventID.v = ""
        THEN {Outcome(<<>>, "event_id is required", "")}
        ELSE IF parsed.err # ""
        THEN {Outcome(<<GetEvent(calendarID, eventID.v, got)>>,
                      "invalid parameters for event", "") : got \in BOOLEAN}
        ELSE UNION {{Outcome(<<GetEvent(calendarID, eventID.v, got),
                               PatchEventDirect(eventID.v, parsed.params, TRUE)>>,
                             "", "Event operation completed successfully"),
                     Outcome(<<GetEvent(calendarID, eventID.v, got),
                               PatchEventDirect(eventID.v, parsed.params, FALSE)>>,
                             "failed to patch event", "")} : got \in BOOLEAN}

handleEditEvent(arguments) ==
    LET eventID == arguments.event_id
        calendarID == getStringOrDefault(arguments.calendar_id, "primary")
        parsed == parsePatchEventParams(arguments)
    IN  IF eventID.k # "str" \/ eventID.v = ""
        THEN {Outcome(<<>>, "event_id is required", "")}
        ELSE {Outcome(<<GetEvent(calendarID, eventID.v, FALSE)>>,
                      "failed to get event details", "")}
             \cup
             (IF parsed.err # ""
              THEN {Outcome(<<GetEvent(calendarID, eventID.v, TRUE)>>,
                            "invalid parameters for event", "")}
              ELSE {Outcome(<<GetEvent(calendarID, eventID.v, TRUE),
                              PatchEventDirect(eventID.v, parsed.params, TRUE)>>,
                            "", "Event operation completed successfully"),
                    Outcome(<<GetEvent(calendarID, eventID.v, TRUE),
                              PatchEventDirect(eventID.v, parsed.params, FALSE)>>,
                            "failed to patch event", "")})

\* fault variant of handleDeleteEvent: the answer of the deletion is not read
handleDeleteEventUnread(arguments) ==
    LET eventID == arguments.event_id
        calendarID == getStringOrDefault(arguments.calendar_id, "primary")
        sendNotifications == getBoolOrDefault(arguments.send_notifications, TRUE)
    IN  IF eventID.k # "str" \/ eventID.v = ""
        THEN {Outcome(<<>>, "event_id is required", "")}
        ELSE {Outcome(<<GetEvent(calendarID, eventID.v, FALSE)>>,
                      "failed to get event details", "")}
             \cup {Outcome(<<GetEvent(calendarID, eventID.v, TRUE),
                             DeleteEvent(calendarID, eventID.v, sendNotifications, ok)>>,
                           "", "Event deleted successfully") : ok \in BOOLEAN}

handleDeleteEvent(arguments) ==
    LET eventID == arguments.event_id
        calendarID == getStringOrDefault(arguments.calendar_id, "primary")
        sendNotifications == getBoolOrDefault(arguments.send_notifications, TRUE)
    IN  IF eventID.k # "str" \/ eventID.v = ""
        THEN {Outcome(<<>>, "event_id is required", "")}
        ELSE {Outcome(<<GetEvent(calendarID, eventID.v, FALSE)>>,
                      "failed to get event details", ""),
              Outcome(<<GetEvent(calendarID, eventID.v, TRUE),
                        DeleteEvent(calendarID, eventID.v, sendNotifications, TRUE)>>,
                      "", "Event deleted successfully"),
              Outcome(<<GetEvent(calendarID, eventID.v, TRUE),
                        DeleteEvent(calendarID, eventID.v, sendNotifications, FALSE)>>,
                      "failed to delete event", "")}

handleGetCalendarColors(arguments) ==
    {Outcome(<<Call("Colors.Get", "", "", NoBody, FALSE, FALSE, TRUE)>>,
             "", "Available Calendar Colors"),
     Outcome(<<Call("Colors.Get", "", "", NoBody, FALSE, FALSE, FALSE)>>,
             "failed to get calendar colors", "")}

\* the addresses emailRegex matches, among the texts explored
EmailShaped == {"ann@x.io"}

isValidEmail(email) == email # "" /\ email \in EmailShaped

handleSearchAttendees(arguments) ==
    LET query == arguments.query
    IN  IF query.k # "str" \/ query.v = ""
        THEN {Outcome(<<>>, "query is required", "")}
        ELSE IF isValidEmail(query.v)
        THEN {Outcome(<<>>, "", "Attendee search results")}
        ELSE {Outcome(<<>>, "failed to search attendees", "")}

\* the first check of a required RFC 3339 argument that fails, "" if none
requiredTime(val, name) ==
    IF val.k # "str" \/ val.v.f = "empty" THEN name ELSE ""

handleGetAttendeeFreeBusy(arguments) ==
    LET emails == arguments.attendee_emails
        fail(msg) == {Outcome(<<>>, msg, "")}
    IN  IF emails.k = "absent" THEN fail("attendee_emails is required")
        ELSE IF emails.k # "arr" THEN fail("attendee_emails must be an array")
        ELSE IF \E i \in DOMAIN emails.v : emails.v[i].k # "str"
        THEN fail("all attendee emails must be strings")
        ELSE IF requiredTime(arguments.time_min, "time_min") # ""
        THEN fail("time_min is required")
        ELSE IF requiredTime(arguments.time_max, "time_max") # ""
        THEN fail("time_max is required")
        ELSE IF timeParse(arguments.time_min.v).err THEN fail("invalid time_min format")
        ELSE IF timeParse(arguments.time_max.v).err THEN fail("invalid time_max format")
        ELSE {Outcome(<<Call("Freebusy.Query", "", "", NoBody, FALSE, FALSE, TRUE)>>,
                      "", "Free/Busy information"),
              Outcome(<<Call("Freebusy.Query", "", "", NoBody, FALSE, FALSE, FALSE)>>,
                      "failed to get free/busy information", "")}

\* one iteration of the filter of Client.ListEvents: d is what
\* isEventDeclined returned for the event, rest the events kept after it
keepUnlessDeclined(event, d, rest) ==
    IF d.declined THEN rest ELSE [rest EXCEPT !.items = <<event>> \o @]

\* the filter of Client.ListEvents from event i on: the events kept and the
\* identity afterwards
RECURSIVE notDeclinedFrom(_, _, _)
RECURSIVE notDeclinedAfter(_, _, _)
notDeclinedFrom(events, i, st) ==
    IF i > Len(events) THEN [items |-> <<>>, st |-> st]
    ELSE notDeclinedAfter(events, i, isEventDeclined(events[i], st))

notDeclinedAfter(events, i, d) ==
    keepUnlessDeclined(events[i], d, notDeclinedFrom(events, i + 1, d.st))

\* Client.ListEvents after Events.List answered with `fetched`
ListEvents(fetched, showDeclined, st) ==
    IF ~showDeclined THEN notDeclinedFrom(fetched, 1, st)
    ELSE [items |-> fetched, st |-> st]

\* t.IsZero()
IsZero(t) == t.unix = 0

\* fault variant of parsedOrZero: the times are never parsed
parsedOrZeroUnparsed(guard, text) == ZeroTime

\* start1, _ = time.Parse(...) under `if event.Start.DateTime != ""`: the
\* zero Time when the text is empty or does not parse
parsedOrZero(guard, text) == IF guard.f # "none" THEN timeParse(text).t ELSE ZeroTime

\* the test of the inner loop of formatEventsJSON on the parsed times
overlapsOther(start1, end1, start2, end2) ==
    ~IsZero(start1) /\ ~IsZero(start2) /\ eventsOverlap(start1, end1, start2, end2)

\* the inner loop of formatEventsJSON for event i, from event j on
RECURSIVE overlappingIdsFrom(_, _, _)
overlappingIdsFrom(events, i, j) ==
    IF j > Len(events) THEN <<>>
    ELSE IF i # j /\ overlapsOther(
                        parsedOrZero(events[i].Start.DateTime, events[i].Start.DateTime),
                        parsedOrZero(events[i].Start.DateTime, events[i].End.DateTime),
                        parsedOrZero(events[j].Start.DateTime, events[j].Start.DateTime),
                        parsedOrZero(events[j].Start.DateTime, events[j].End.DateTime))
    THEN <<events[j].Id>> \o overlappingIdsFrom(events, i, j + 1)
    ELSE overlappingIdsFrom(events, i, j + 1)

\* overlappingPairs of formatEventsJSON, a map keyed by event id: for the
\* index of every flagged event its overlapping ids, <<>> for the others (the
\* ids of a listing are distinct)
overlappingPairs(events, flags) ==
    [i \in DOMAIN events |->
        IF Lookup(flags, events[i].Id) THEN overlappingIdsFrom(events, i, 1) ELSE <<>>]

\* the events of the JSON result, given the maps built for them
jsonEvents(events, detectOverlaps, flags, pairs) ==
    [i \in DOMAIN events |->
        IF ~detectOverlaps
        THEN [id |-> events[i].Id, has_overlap |-> "absent",
              overlapping_event_ids |-> [has |-> FALSE, v |-> <<>>]]
        ELSE [id |-> events[i].Id,
              has_overlap |-> IF Lookup(flags, events[i].Id) THEN "true" ELSE "false",
              overlapping_event_ids |->
                  IF Len(pairs[i]) > 0 THEN [has |-> TRUE, v |-> pairs[i]]
                  ELSE [has |-> FALSE, v |-> <<>>]]]

\* formatEventsJSON after its call of DetectOverlaps returned d
jsonListing(events, detectOverlaps, d, st) ==
    [listing |-> [format |-> "json",
                  events |-> jsonEvents(events, detectOverlaps, d.overlaps,
                                        overlappingPairs(events, d.overlaps))],
     st |-> IF detectOverlaps THEN d.st ELSE st]

\* CalendarTools.formatEventsJSON: the events of the JSON result and the
\* identity afterwards
formatEventsJSON(events, detectOverlaps, showDeclined, st) ==
    jsonListing(events, detectOverlaps, DetectOverlaps(events, showDeclined, st), st)

\* the date an event is grouped under by formatEventsResult; "Unknown" when
\* the event has no start text that parses
UnknownDate == [f |-> "unknown", day |-> 0, hour |-> 0, off |-> 0]

eventDate(event) ==
    IF event.Start.Date.f # "none" THEN event.Start.Date
    ELSE IF event.Start.DateTime.f # "none" /\ ~timeParse(event.Start.DateTime).err
    THEN FormatDate(timeParse(event.Start.DateTime).t)
    ELSE UnknownDate

\* dates[i] > dates[j] on the strings: "Unknown" is above every YYYY-MM-DD
dateAbove(a, b) ==
    IF a.f = "unknown" THEN b.f # "unknown"
    ELSE b.f # "unknown" /\ a.day > b.day

\* the least of a set of dates
firstDate(dates) == CHOOSE a \in dates : \A b \in dates : ~dateAbove(a, b)

\* the groups of eventsByDate written in ascending order of their date
RECURSIVE byDate(_, _)
byDate(shown, dates) ==
    IF dates = {} THEN <<>>
    ELSE SelectSeq(shown, LAMBDA e : e.date = firstDate(dates))
         \o byDate(shown, dates \ {firstDate(dates)})

\* the events of the text before grouping, given the map built for them
textEvents(events, detectOverlaps, flags) ==
    [i \in DOMAIN events |->
        [id |-> events[i].Id, date |-> eventDate(events[i]),
         has_overlap |-> IF detectOverlaps /\ Lookup(flags, events[i].Id)
                         THEN "true" ELSE "false",
         overlapping_event_ids |-> [has |-> FALSE, v |-> <<>>]]]

\* the events of the text grouped by date
grouped(all) == byDate(all, {all[i].date : i \in DOMAIN all})

\* formatEventsResult after its call of DetectOverlaps returned d
textListing(events, detectOverlaps, d, st) ==
    [listing |-> [format |-> "text",
                  events |-> grouped(textEvents(events, detectOverlaps, d.overlaps))],
     st |-> IF detectOverlaps THEN d.st ELSE st]

\* CalendarTools.formatEventsResult: the events of the text and the identity
\* afterwards
formatEventsResult(events, detectOverlaps, showDeclined, st) ==
    IF Len(events) = 0
    THEN [listing |-> [format |-> "text", events |-> <<>>], st |-> st]
    ELSE textListing(events, detectOverlaps, DetectOverlaps(events, showDeclined, st), st)

\* the formatter handleListEvents chooses, applied to what ListEvents returned
formatListed(outputFormat, listed, detectOverlaps, showDeclined) ==
    IF outputFormat = "json"
    THEN formatEventsJSON(listed.items, detectOverlaps, showDeclined, listed.st)
    ELSE formatEventsResult(listed.items, detectOverlaps, showDeclined, listed.st)

\* the outcome of a list_events call whose Events.List succeeded
listedOutcome(call, formatted) ==
    [Outcome(<<call>>, "", "Events")
        EXCEPT !.listing = formatted.listing,
               !.cachedUserEmail = formatted.st.cache,
               !.fetchFails = formatted.st.fails,
               !.fetches = formatted.st.fetches]

\* handleListEvents.  The events of the listing have a start and an end
\* object (the formatters read event.Start.Date without a nil check).
handleListEvents(arguments) ==
    LET calendarID == getStringOrDefault(arguments.calendar_id, "primary")
        custom == getStringOrDefault(arguments.time_filter, "today") = "custom"
        showDeclined == getBoolOrDefault(arguments.show_declined, FALSE)
        fail(msg) == {Outcome(<<>>, msg, "")}
    IN  IF custom /\ requiredTime(arguments.time_min, "time_min") # ""
        THEN fail("time_min is required when time_filter is 'custom'")
        ELSE IF custom /\ requiredTime(arguments.time_max, "time_max") # ""
        THEN fail("time_max is required when time_filter is 'custom'")
        ELSE IF custom /\ timeParse(arguments.time_min.v).err
        THEN fail("invalid time_min format")
        ELSE IF custom /\ timeParse(arguments.time_max.v).err
        THEN fail("invalid time_max format")
        ELSE {listedOutcome(
                  Call("Events.List", defaultCalendar(calendarID), "", NoBody,
                       FALSE, FALSE, TRUE),
                  formatListed(
                      getStringOrDefault(arguments.output_format, "text"),
                      ListEvents(items, showDeclined, Identity(cachedUserEmail, fetchFails)),
                      getBoolOrDefault(arguments.detect_overlaps, TRUE),
                      showDeclined)),
              Outcome(<<Call("Events.List", defaultCalendar(calendarID), "", NoBody,
                             FALSE, FALSE, FALSE)>>, "failed to list events", "")}

\* fault variant of GetTools: the tools named in the startup log line
GetToolsLogged == {"create_event", "edit_event", "delete_event",
                   "search_attendees", "get_attendee_freebusy", "list_events"}

\* CalendarTools.GetTools: the names registered at startup
GetTools == {"create_event", "edit_event", "delete_event", "get_calendar_colors",
             "search_attendees", "get_attendee_freebusy", "list_events"}

\* fault variant of HandleTool: the switch has the six cases of the startup
\* log line and no case for get_calendar_colors
HandleToolLogged(name, arguments) ==
    CASE name = "create_event" -> handleCreateEvent(arguments)
      [] name = "edit_event" -> handleEditEvent(arguments)
      [] name = "delete_event" -> handleDeleteEvent(arguments)
      [] name = "search_attendees" -> handleSearchAttendees(arguments)
      [] name = "get_attendee_freebusy" -> handleGetAttendeeFreeBusy(arguments)
      [] name = "list_events" -> handleListEvents(arguments)
      [] OTHER -> {Outcome(<<>>, "unknown tool", "")}

\* CalendarTools.HandleTool
HandleTool(name, arguments) ==
    CASE name = "create_event" -> handleCreateEvent(arguments)
      [] name = "edit_event" -> handleEditEvent(arguments)
      [] name = "delete_event" -> handleDeleteEvent(arguments)
      [] name = "get_calendar_colors" -> handleGetCalendarColors(arguments)
      [] name = "search_attendees" -> handleSearchAttendees(arguments)
      [] name = "get_attendee_freebusy" -> handleGetAttendeeFreeBusy(arguments)
      [] name = "list_events" -> handleListEvents(arguments)
      [] OTHER -> {Outcome(<<>>, "unknown tool", "")}

----------------------------------------------------------------------------
\* Input lines.  A line is blank, text that is not JSON ("syntax"), JSON that
\* does not fit Request ("type": a member of the wrong type, or no object), or
\* a request.  id is the id the text carries (NullId if none); params says
\* whether the params member is missing, present but not decodable into the
\* method's parameter struct ("bad"), or decodable.

Line(kind, id, method, params, name, arguments) ==
    [kind |-> kind, id |-> id, method |-> method, params |-> params, name |-> name,
     arguments |-> arguments]

NoLine == Line("none", NullId, "", "absent", "", EmptyArgs)

Methods == {"initialize", "initialized", "tools/list", "tools/call", "shutdown", "exit",
            "", "resources/list"}

GoodCreate == [EmptyArgs EXCEPT !.summary = Str("Sync"),
                                !.start_time = Str(Rfc3339(1, 10, 0)),
                                !.end_time = Str(Rfc3339(1, 10, 2))]
GoodEdit == [EmptyArgs EXCEPT !.event_id = Str("evt1"), !.summary = Str("Sync")]
GoodDelete == [EmptyArgs EXCEPT !.event_id = Str("evt1")]
GoodSearch == [EmptyArgs EXCEPT !.query = Str("ann@x.io")]
GoodFreeBusy == [EmptyArgs EXCEPT !.attendee_emails = Arr(<<Str("ann@x.io")>>),
                                  !.time_min = Str(Rfc3339(1, 1, 0)),
                                  !.time_max = Str(Rfc3339(1, 10, 0))]

\* the tools/call parameters explored by the transport: every registered
\* tool with {} and with arguments its handler accepts, and unregistered names
TransportCalls ==
    {<<n, EmptyArgs>> : n \in GetTools \cup {"", "no_such_tool"}}
    \cup {<<"create_event", GoodCreate>>, <<"edit_event", GoodEdit>>,
          <<"delete_event", GoodDelete>>, <<"search_attendees", GoodSearch>>,
          <<"get_attendee_freebusy", GoodFreeBusy>>}

Lines ==
    {Line("blank", NullId, "", "absent", "", EmptyArgs)}
    \cup {Line(k, id, "tools/list", "absent", "", EmptyArgs) : k \in {"syntax", "type"}, id \in Ids}
    \cup {Line("request", id, m, "absent", "", EmptyArgs) : id \in Ids, m \in Methods}
    \cup {Line("request", id, "initialize", p, "", EmptyArgs) : id \in Ids, p \in {"bad", "ok"}}
    \cup {Line("request", id, "tools/call", "bad", n, EmptyArgs) :
            id \in Ids, n \in {"create_event", "no_such_tool"}}
    \cup {Line("request", id, "tools/call", "ok", c[1], c[2]) : id \in Ids, c \in TransportCalls}
    \cup {Line("request", BigId, m, "absent", "", EmptyArgs) : m \in {"tools/list", "ping"}}

\* json.Unmarshal(line, &req): on a syntax error nothing is stored; on a type
\* error the members that fit are stored, the id among them
Unmarshal(l) ==
    IF l.kind = "syntax"
    THEN [err |-> TRUE, req |-> [ID |-> NullId, Method |-> "", Params |-> "absent",
                                 name |-> "", arguments |-> EmptyArgs]]
    ELSE [err |-> (l.kind = "type"),
          req |-> [ID |-> decodeId(l.id), Method |-> l.method, Params |-> l.params,
                   name |-> l.name, arguments |-> l.arguments]]

----------------------------------------------------------------------------
\* Response, and its encoding by sendResponse (Result and Error are omitempty).

\* isError is "absent" (a nil *bool, left out of the encoding) or "true"
NilResult == [kind |-> "nil", isError |-> "absent", text |-> "", tools |-> {},
              listing |-> NoListing]
NilError == [nil |-> TRUE, code |-> 0, message |-> "", tool |-> "", data |-> FALSE]

ResultResponse(id, result) == [ID |-> id, Result |-> result, Error |-> NilError]
ErrorResponse(id, code, message, tool, data) ==
    [ID |-> id, Result |-> NilResult,
     Error |-> [nil |-> FALSE, code |-> code, message |-> message, tool |-> tool,
                data |-> data]]

NoResponse == [ID |-> NullId, Result |-> NilResult, Error |-> NilError]

\* json.Marshal(response)
MarshalResponse(r) ==
    [id |-> r.ID,
     hasResult |-> r.Result.kind # "nil", result |-> r.Result,
     hasError |-> ~r.Error.nil, error |-> r.Error]

\* fault variant of CallToolResult: the error text is returned without the
\* isError mark
CallToolResultUnmarked(o) ==
    [kind |-> "call", isError |-> "absent",
     text |-> IF o.err # "" THEN o.err ELSE o.text, tools |-> {}, listing |-> o.listing]

\* the CallToolResult handleCallTool returns for an outcome of the handler
CallToolResult(o) ==
    IF o.err # ""
    THEN [kind |-> "call", isError |-> "true", text |-> o.err, tools |-> {},
          listing |-> NoListing]
    ELSE [kind |-> "call", isError |-> "absent", text |-> o.text, tools |-> {},
          listing |-> o.listing]

----------------------------------------------------------------------------
\* Server.Run and the handlers of Server.handleRequest.

req == Unmarshal(line).req

Written(r) == Append(out, [line |-> lineNo, resp |-> MarshalResponse(r)])

\* what a line is to Run: skipped, answered with a parse error, or a request
\* with its method
Category(l) ==
    IF l.kind = "blank" THEN [kind |-> "blank", method |-> ""]
    ELSE IF Unmarshal(l).err THEN [kind |-> "undecodable", method |-> ""]
    ELSE [kind |-> "request", method |-> Unmarshal(l).req.Method]

\* scanner.Scan delivers the next line
Scan ==
    /\ pc = "scan"
    /\ lineNo < MaxLines
    /\ \E l \in Lines : line' = l /\ input' = Append(input, Category(l))
    /\ lineNo' = lineNo + 1
    /\ pc' = "line"
    /\ UNCHANGED <<response, out, calls, invoked, tools, client>>

\* scanner.Scan returns false at the end of the input: Run returns nil
ScanEOF ==
    /\ pc = "scan"
    /\ pc' = "eof"
    /\ UNCHANGED <<lineNo, line, input, response, out, calls, invoked, tools, client>>

\* scanner.Scan returns false on a line longer than the scanner's buffer:
\* Run returns scanner.Err() and main ends the process
ScanTooLong ==
    /\ pc = "scan"
    /\ lineNo < MaxLines
    /\ pc' = "failed"
    /\ UNCHANGED <<lineNo, line, input, response, out, calls, invoked, tools, client>>

\* the end of one iteration of the loop of Run: line, req and response go
\* out of scope
EndIteration ==
    /\ pc' = "scan"
    /\ line' = NoLine
    /\ response' = NoResponse
    /\ calls' = <<>>

\* fault variant of sendResponse: the response is never written
sendResponseDropped ==
    /\ pc = "send"
    /\ EndIteration
    /\ UNCHANGED <<lineNo, input, out, invoked, tools, client>>

\* fault variant of ParseError: Run returns after the parse-error response
ParseErrorStops ==
    /\ pc = "line"
    /\ line.kind # "blank"
    /\ Unmarshal(line).err
    /\ out' = Written(ErrorResponse(req.ID, ParseErrorCode, "Parse error", "", FALSE))
    /\ pc' = "failed"
    /\ UNCHANGED <<lineNo, line, input, response, calls, invoked, tools, client>>

\* len(line) == 0: continue
SkipBlank ==
    /\ pc = "line"
    /\ line.kind = "blank"
    /\ EndIteration
    /\ UNCHANGED <<lineNo, input, out, invoked, tools, client>>

\* json.Unmarshal fails: sendError(req.ID, -32700, "Parse error", nil); continue
ParseError ==
    /\ pc = "line"
    /\ line.kind # "blank"
    /\ Unmarshal(line).err
    /\ out' = Written(ErrorResponse(req.ID, ParseErrorCode, "Parse error", "", FALSE))
    /\ EndIteration
    /\ UNCHANGED <<lineNo, input, invoked, tools, client>>

Decoded == pc = "line" /\ line.kind # "blank" /\ ~Unmarshal(line).err

Respond(r) ==
    /\ response' = r
    /\ pc' = "send"
    /\ UNCHANGED <<lineNo, line, input, out, calls, invoked, tools, client>>

\* fault variant of handleInitialize: an initialize that follows another one
\* is refused
handleInitializeOnce ==
    /\ Decoded
    /\ req.Method = "initialize"
    /\ IF \/ req.Params = "bad"
          \/ \E k \in 1..(lineNo - 1) : input[k] = [kind |-> "request", method |-> "initialize"]
       THEN Respond(ErrorResponse(req.ID, InvalidParamsCode, "Invalid params", "", TRUE))
       ELSE Respond(ResultResponse(req.ID, [NilResult EXCEPT !.kind = "initialize"]))

handleInitialize ==
    /\ Decoded
    /\ req.Method = "initialize"
    /\ IF req.Params = "bad"
       THEN Respond(ErrorResponse(req.ID, InvalidParamsCode, "Invalid params", "", TRUE))
       ELSE Respond(ResultResponse(req.ID, [NilResult EXCEPT !.kind = "initialize"]))

handleInitialized ==
    /\ Decoded
    /\ req.Method = "initialized"
    /\ Respond(ResultResponse(req.ID, [NilResult EXCEPT !.kind = "empty"]))

\* fault variant of handleListTools: only the tools named in the startup log
\* line are listed
handleListToolsLogged ==
    /\ Decoded
    /\ req.Method = "tools/list"
    /\ Respond(ResultResponse(req.ID, [NilResult EXCEPT !.kind = "tools",
                                                         !.tools = tools \ {"get_calendar_colors"}]))

handleListTools ==
    /\ Decoded
    /\ req.Method = "tools/list"
    /\ Respond(ResultResponse(req.ID, [NilResult EXCEPT !.kind = "tools", !.tools = tools]))

\* fault variant of handleShutdown: shutdown ends the process like exit
handleShutdownExits ==
    /\ Decoded
    /\ req.Method = "shutdown"
    /\ pc' = "exited"
    /\ UNCHANGED <<lineNo, line, input, response, out, calls, invoked, tools, client>>

handleShutdown ==
    /\ Decoded
    /\ req.Method = "shutdown"
    /\ Respond(ResultResponse(req.ID, [NilResult EXCEPT !.kind = "empty"]))

\* os.Exit(0)
handleExit ==
    /\ Decoded
    /\ req.Method = "exit"
    /\ pc' = "exited"
    /\ UNCHANGED <<lineNo, line, input, response, out, calls, invoked, tools, client>>

\* fault variant of handleMethodNotFound: the default case answers like a
\* request whose params do not decode
handleMethodNotFoundAsParams ==
    /\ Decoded
    /\ req.Method \notin {"initialize", "initialized", "tools/list", "tools/call",
                          "shutdown", "exit"}
    /\ Respond(ErrorResponse(req.ID, InvalidParamsCode, "Invalid params", "", FALSE))

handleMethodNotFound ==
    /\ Decoded
    /\ req.Method \notin {"initialize", "initialized", "tools/list", "tools/call",
                          "shutdown", "exit"}
    /\ Respond(ErrorResponse(req.ID, MethodNotFoundCode, "Method not found", "", FALSE))

\* fault variant of unknownTool: the unknown name is answered like a failure
\* of the tool handler
unknownToolAsResult(id, name) ==
    ResultResponse(id, [kind |-> "call", isError |-> "true", text |-> "unknown tool",
                        tools |-> {}, listing |-> NoListing])

\* the response of handleCallTool to a name that is not in s.tools
unknownTool(id, name) == ErrorResponse(id, InvalidParamsCode, "Unknown tool", name, FALSE)

\* Server.handleCallTool, the call of ToolHandler.HandleTool included
handleCallTool ==
    /\ Decoded
    /\ req.Method = "tools/call"
    /\ IF req.Params # "ok"
       THEN Respond(ErrorResponse(req.ID, InvalidParamsCode, "Invalid params", "", TRUE))
       ELSE IF req.name \notin tools
       THEN Respond(unknownTool(req.ID, req.name))
       ELSE \E o \in HandleTool(req.name, req.arguments) :
               /\ response' = ResultResponse(req.ID, CallToolResult(o))
               /\ calls' = o.calls
               /\ invoked' = invoked \cup {lineNo}
               /\ pc' = "send"
               /\ cachedUserEmail' = o.cachedUserEmail
               /\ fetchFails' = o.fetchFails
               /\ fetches' = fetches \o o.fetches
               /\ UNCHANGED <<lineNo, line, input, out, tools, items, overlaps>>

\* sendResponse(response)
sendResponse ==
    /\ pc = "send"
    /\ out' = Written(response)
    /\ EndIteration
    /\ UNCHANGED <<lineNo, input, invoked, tools, client>>

Init ==
    /\ pc = "scan"
    /\ lineNo = 0
    /\ line = NoLine
    /\ input = <<>>
    /\ response = NoResponse
    /\ out = <<>>
    /\ calls = <<>>
    /\ invoked = {}
    /\ tools = GetTools
    /\ cachedUserEmail = ""
    /\ fetchFails = 0
    /\ fetches = <<>>
    /\ items = <<>>
    /\ overlaps = <<>>

Next ==
    \/ Scan \/ ScanEOF \/ ScanTooLong \/ SkipBlank \/ ParseError
    \/ handleInitialize \/ handleInitialized \/ handleListTools \/ handleCallTool
    \/ handleShutdown \/ handleExit \/ handleMethodNotFound
    \/ sendResponse

Spec == Init /\ [][Next]_vars

\* One tools/call request on a registered tool, with the arguments explored
\* for that tool, handled from the point where its line has been read.
InitTool ==
    /\ pc = "line"
    /\ lineNo = 1
    /\ \E n \in GetTools : \E a \in ToolArgs(n) :
          line = Line("request", "7", "tools/call", "ok", n, a)
    /\ input = <<[kind |-> "request", method |-> "tools/call"]>>
    /\ response = NoResponse
    /\ out = <<>>
    /\ calls = <<>>
    /\ invoked = {}
    /\ tools = GetTools
    /\ cachedUserEmail = ""
    /\ fetchFails = 0
    /\ fetches = <<>>
    /\ items = <<>>
    /\ overlaps = <<>>

NextTool == handleCallTool \/ sendResponse

SpecTool == InitTool /\ [][NextTool]_vars

----------------------------------------------------------------------------
\* The events explored.  A span is the start and end of an event; the ids of
\* a batch are distinct, as the ids of one listing of the service are.

SpanA == <<TimedAt(1, 1, 0), TimedAt(1, 2, 0)>>
SpanB == <<TimedAt(1, 2, 0), TimedAt(1, 3, 0)>>
\* 01:00Z to 03:00Z of day 1, written in the zone +02:00
SpanC == <<TimedAt(1, 3, 2), TimedAt(1, 5, 2)>>
SpanLate == <<TimedAt(2, 1, 0), TimedAt(2, 2, 0)>>
SpanDay == <<AllDayOn(1), AllDayOn(2)>>

Declining == <<Attendee(UserEmail, "declined"), Attendee("ann@x.io", "accepted")>>
OtherDeclining == <<Attendee(UserEmail, "accepted"), Attendee("ann@x.io", "declined")>>

Shape(span, attendees) == [span |-> span, attendees |-> attendees]

\* events a listing of the service holds
ListedShapes ==
    {Shape(sp, at) : sp \in {SpanA, SpanB, SpanC}, at \in {<<>>, OtherDeclining}}
    \cup {Shape(SpanLate, Declining), Shape(SpanDay, <<>>)}

\* events handed to the detector, among them an event whose times do not parse
BatchShapes ==
    {Shape(SpanA, <<>>), Shape(SpanB, <<>>), Shape(SpanDay, <<>>),
     Shape(SpanA, Declining), Shape(SpanC, OtherDeclining), Shape(SpanDay, OtherDeclining),
     Shape(<<Untimed, Untimed>>, <<>>)}

EventIds == <<"e1", "e2", "e3", "e4", "e5">>

Batches(shapes) ==
    {[i \in DOMAIN b |-> FetchedEvent(EventIds[i], b[i].span[1], b[i].span[2], b[i].attendees)] :
        b \in SeqsUpTo(shapes, MaxEvents)}

\* a number of failing fetches that outlasts one request
Unreachable == 2 * MaxEvents + 1

\* the states of the identity: cached, or not cached with a service that
\* answers at once, after some failures, or not during the request
Identities ==
    {Identity(UserEmail, 0)} \cup {Identity("", k) : k \in (0..MaxFetchFails) \cup {Unreachable}}

ListArgs ==
    {[EmptyArgs EXCEPT !.show_declined = sd, !.detect_overlaps = det, !.output_format = fmt] :
        sd \in {BoolAbsent, Bool(TRUE)}, det \in {BoolAbsent, Bool(FALSE)},
        fmt \in {StrAbsent, Str("json")}}

\* One list_events request, handled from the point where its line has been
\* read, over the listings and the identity states explored.
InitList ==
    /\ pc = "line"
    /\ lineNo = 1
    /\ \E a \in ListArgs : line = Line("request", "7", "tools/call", "ok", "list_events", a)
    /\ input = <<[kind |-> "request", method |-> "tools/call"]>>
    /\ response = NoResponse
    /\ out = <<>>
    /\ calls = <<>>
    /\ invoked = {}
    /\ tools = GetTools
    /\ \E st \in Identities : cachedUserEmail = st.cache /\ fetchFails = st.fails
    /\ fetches = <<>>
    /\ items \in Batches(ListedShapes)
    /\ overlaps = <<>>

SpecList == InitList /\ [][NextTool]_vars

\* One call of Client.DetectOverlaps(items, showDeclined), as the formatters
\* of list_events make it, over the batches and the identity states explored.
InitOverlaps ==
    /\ pc = "detect"
    /\ lineNo = 1
    /\ \E sd \in {BoolAbsent, Bool(TRUE)} :
          line = Line("request", "7", "tools/call", "ok", "list_events",
                      [EmptyArgs EXCEPT !.show_declined = sd])
    /\ input = <<[kind |-> "request", method |-> "tools/call"]>>
    /\ response = NoResponse
    /\ out = <<>>
    /\ calls = <<>>
    /\ invoked = {}
    /\ tools = GetTools
    /\ \E st \in Identities : cachedUserEmail = st.cache /\ fetchFails = st.fails
    /\ fetches = <<>>
    /\ items \in Batches(BatchShapes)
    /\ overlaps = <<>>

\* params.ShowDeclined of the request being handled
ShowDeclined == getBoolOrDefault(line.arguments.show_declined, FALSE)

detectOverlaps ==
    /\ pc = "detect"
    /\ LET d == DetectOverlaps(items, ShowDeclined, Identity(cachedUserEmail, fetchFails))
       IN  /\ overlaps' = d.overlaps
           /\ cachedUserEmail' = d.st.cache
           /\ fetchFails' = d.st.fails
           /\ fetches' = fetches \o d.st.fetches
    /\ pc' = "detected"
    /\ UNCHANGED <<lineNo, line, input, response, out, calls, invoked, tools, items>>

NextOverlaps == detectOverlaps

SpecOverlaps == InitOverlaps /\ [][NextOverlaps]_vars

\* A session of list_events requests against a calendar whose content
\* changes between them: n events at the same time, each with the caller and
\* another attendee.
SessionListings ==
    {[i \in 1..n |-> FetchedEvent(EventIds[i], SpanA[1], SpanA[2], OtherDeclining)] :
        n \in 0..MaxList}

SessionArgs ==
    {[EmptyArgs EXCEPT !.show_declined = sd, !.detect_overlaps = det,
                       !.output_format = Str("json")] :
        sd \in {BoolAbsent, Bool(TRUE)}, det \in {BoolAbsent, Bool(FALSE)}}

\* the state after NewClient: nothing cached, no fetch issued
InitSession ==
    /\ pc = "scan"
    /\ lineNo = 0
    /\ line = NoLine
    /\ input = <<>>
    /\ response = NoResponse
    /\ out = <<>>
    /\ calls = <<>>
    /\ invoked = {}
    /\ tools = GetTools
    /\ cachedUserEmail = ""
    /\ fetchFails \in (0..MaxFetchFails) \cup {Unreachable}
    /\ fetches = <<>>
    /\ items = <<>>
    /\ overlaps = <<>>

\* scanner.Scan delivers a list_events request; by then the calendar holds
\* one of the listings
ScanListEvents ==
    /\ pc = "scan"
    /\ lineNo < MaxLines
    /\ \E a \in SessionArgs :
          LET l == Line("request", "7", "tools/call", "ok", "list_events", a)
          IN  line' = l /\ input' = Append(input, Category(l))
    /\ items' \in SessionListings
    /\ lineNo' = lineNo + 1
    /\ pc' = "line"
    /\ UNCHANGED <<response, out, calls, invoked, tools, cachedUserEmail, fetchFails,
                   fetches, overlaps>>

NextSession == ScanListEvents \/ handleCallTool \/ sendResponse

SpecSession == InitSession /\ [][NextSession]_vars

----------------------------------------------------------------------------
\* Properties of the transport (checked under Spec).

\* the responses written for input line k
Answers(k) == {i \in DOMAIN out : out[i].line = k}

\* the iteration of Run for input line k is over
Served(k) == k < lineNo \/ pc \in {"scan", "eof", "failed"}

\* input line k decoded as a request other than exit
IsRequest(k) == input[k].kind = "request" /\ input[k].method # "exit"

\* C1: every line read that decodes as a request other than exit has exactly
\* one response once its iteration is over and none before; a blank line has
\* none; every line before the current one is already answered when the
\* current one is read, and the responses are written in the order of the
\* lines they answer.
C1_OneResponsePerRequestInOrder ==
    /\ Len(input) = lineNo
    /\ \A k \in 1..lineNo :
          /\ (IsRequest(k) /\ Served(k)) => Cardinality(Answers(k)) = 1
          /\ (IsRequest(k) /\ ~Served(k)) => Answers(k) = {}
          /\ input[k].kind = "blank" => Answers(k) = {}
    /\ \A i \in DOMAIN out : out[i].line \in 1..lineNo
    /\ \A i, j \in DOMAIN out : i < j => out[i].line < out[j].line

\* two requests read, each answered, in order
C1_Witness ==
    /\ pc = "scan"
    /\ Len(input) = 2 /\ IsRequest(1) /\ IsRequest(2)
    /\ Len(out) = 2 /\ out[1].line = 1 /\ out[2].line = 2

\* C2: the step taken on a non-blank line that does not decode writes exactly
\* one response, an error envelope with code -32700 and no result, whose id
\* is the id of the payload when one was stored and null otherwise; it enters
\* no tool handler and leaves Run at the read of the next line.
C2_ParseErrorAnsweredLoopContinues ==
    [][ (pc = "line" /\ line.kind \in {"syntax", "type"}) =>
          /\ pc' = "scan"
          /\ Len(out') = Len(out) + 1
          /\ SubSeq(out', 1, Len(out)) = out
          /\ out'[Len(out')].line = lineNo
          /\ out'[Len(out')].resp.hasError
          /\ ~out'[Len(out')].resp.hasResult
          /\ out'[Len(out')].resp.error.code = ParseErrorCode
          /\ out'[Len(out')].resp.id = (IF line.kind = "type" THEN line.id ELSE NullId)
          /\ invoked' = invoked
          /\ lineNo \notin invoked
      ]_vars

\* an undecodable first line answered with -32700, then a second line read
\* and answered
C2_Witness ==
    /\ Len(input) = 2 /\ input[1].kind = "undecodable"
    /\ Len(out) = 2
    /\ out[1].line = 1 /\ out[1].resp.hasError /\ out[1].resp.error.code = ParseErrorCode
    /\ out[2].line = 2

\* a tools/call request whose params decode
CallRequest == line.kind = "request" /\ req.Method = "tools/call" /\ req.Params = "ok"

\* C3: the response built for a tools/call request (its params decoded) whose
\* tool name is not registered is an error envelope with code -32602 that
\* names the tool; it has no result and no isError, the tool handler was not
\* entered for the line and no call to the calendar service was made.
C3_UnknownToolIsInvalidParams ==
    (pc = "send" /\ CallRequest /\ req.name \notin tools) =>
        /\ MarshalResponse(response).hasError
        /\ response.Error.code = InvalidParamsCode
        /\ response.Error.message = "Unknown tool"
        /\ response.Error.tool = req.name
        /\ ~MarshalResponse(response).hasResult
        /\ response.Result.isError = "absent"
        /\ lineNo \notin invoked
        /\ calls = <<>>

C3_Witness ==
    /\ pc = "send" /\ CallRequest
    /\ req.name = "no_such_tool"
    /\ response.Error.code = InvalidParamsCode
    /\ response.Error.tool = "no_such_tool"

\* C18: the response built for a decoded request carries the id the request
\* line carries, and its encoding has a result or an error, not both and not
\* neither, whatever the method.
C18_SameIdExactlyOneChannel ==
    pc = "send" =>
        /\ MarshalResponse(response).id = line.id
        /\ MarshalResponse(response).hasResult # MarshalResponse(response).hasError

\* the methods handleRequest has a case for
KnownMethods == {"initialize", "initialized", "tools/list", "tools/call", "shutdown", "exit"}

\* C19: the response built for a decoded request whose method is none of
\* the six (the empty method of a request without one included) is an error
\* with code -32601 and no result; the tool handler was not entered for the
\* line and no call to the calendar service was made.
C19_OtherMethodIsMethodNotFound ==
    (pc = "send" /\ line.kind = "request" /\ req.Method \notin KnownMethods) =>
        /\ MarshalResponse(response).hasError
        /\ response.Error.code = MethodNotFoundCode
        /\ ~MarshalResponse(response).hasResult
        /\ lineNo \notin invoked
        /\ calls = <<>>

\* a request without a method has been answered with -32601
C19_Witness ==
    /\ pc = "scan"
    /\ lineNo >= 1 /\ input[lineNo] = [kind |-> "request", method |-> ""]
    /\ Cardinality(Answers(lineNo)) = 1
    /\ \A i \in Answers(lineNo) : out[i].resp.error.code = MethodNotFoundCode
    /\ invoked = {}

\* input line k is a request read after a shutdown request
AfterShutdown(k) == \E j \in 1..(k - 1) : input[j] = [kind |-> "request", method |-> "shutdown"]

\* every request read after a shutdown and served has its one response, and
\* a process that has exited has read an exit request last and has written
\* nothing for it
RunningAfterShutdown ==
    /\ \A k \in DOMAIN input :
          (AfterShutdown(k) /\ IsRequest(k) /\ Served(k)) => Cardinality(Answers(k)) = 1
    /\ pc = "exited" =>
          (/\ input[lineNo] = [kind |-> "request", method |-> "exit"]
           /\ Answers(lineNo) = {})

\* C20: a shutdown request is answered with an empty result, written to the
\* output, after which Run scans the next line; every request read after a
\* shutdown gets its one response; the process exits only in the step that
\* handles an exit request, that step writes nothing, no response is ever
\* written for the exit line, and no step follows the exit.
C20_ShutdownContinuesExitEnds ==
    [][/\ pc # "exited"
       /\ RunningAfterShutdown'
       /\ (Decoded /\ req.Method = "shutdown") =>
             (/\ pc' = "send"
              /\ response' = ResultResponse(req.ID, [NilResult EXCEPT !.kind = "empty"]))
       /\ (pc = "send" /\ req.Method = "shutdown") =>
             (/\ pc' = "scan"
              /\ out' = Append(out, [line |-> lineNo, resp |-> MarshalResponse(response)])
              /\ MarshalResponse(response).hasResult
              /\ ~MarshalResponse(response).hasError)
       /\ pc' = "exited" => (Decoded /\ req.Method = "exit" /\ out' = out)
      ]_vars

\* a shutdown has been answered with an empty result and the request read
\* after it has been answered too
C20_Witness ==
    /\ pc = "scan"
    /\ Len(input) = 2
    /\ input[1] = [kind |-> "request", method |-> "shutdown"]
    /\ IsRequest(2)
    /\ Len(out) = 2
    /\ out[1].line = 1 /\ out[1].resp.result.kind = "empty"
    /\ out[2].line = 2

----------------------------------------------------------------------------
\* Properties of one tool call (checked under SpecTool).

\* the response to a tools/call on a registered tool has been built
ToolCalled(names) == pc = "send" /\ CallRequest /\ req.name \in names \cap tools

\* a required time argument that is given but is not RFC 3339
BadTime(val) == val.k = "str" /\ val.v.f = "bad"

\* the failures named by C4, read off the request and the calls made
CallFailed == \E i \in DOMAIN calls : ~calls[i].ok
InvalidTime ==
    /\ req.name \in {"create_event", "edit_event"}
    /\ BadTime(req.arguments.start_time) \/ BadTime(req.arguments.end_time)
MissingArgument ==
    \/ /\ req.name \in {"edit_event", "delete_event"}
       /\ req.arguments.event_id.k = "absent"
    \/ req.name = "search_attendees" /\ req.arguments.query.k = "absent"
    \/ req.name = "get_attendee_freebusy" /\ req.arguments.attendee_emails.k = "absent"

\* C4: the response to a tools/call on a registered tool always has a result
\* with a text and no error envelope; when the calendar service failed (an
\* event not found among the failures), a time was invalid or a required
\* argument was missing, isError is true; when isError is absent every call
\* to the calendar service succeeded.
C4_HandlerFailureIsErrorResult ==
    ToolCalled(tools) =>
        /\ MarshalResponse(response).hasResult
        /\ ~MarshalResponse(response).hasError
        /\ response.Result.kind = "call"
        /\ response.Result.text # ""
        /\ (CallFailed \/ InvalidTime \/ MissingArgument) => response.Result.isError = "true"
        /\ response.Result.isError = "absent" => ~CallFailed
        /\ lineNo \in invoked

\* an edit whose event lookup failed: an error result, no error envelope
C4_Witness ==
    /\ ToolCalled({"edit_event"})
    /\ CallFailed
    /\ response.Result.isError = "true"
    /\ response.Error.nil

\* the calls of the current handler that carry an event body
EventCalls == {i \in DOMAIN calls : calls[i].op \in {"Events.Insert", "Events.Patch"}}
PatchCalls == {i \in DOMAIN calls : calls[i].op = "Events.Patch"}
InsertCalls == {i \in DOMAIN calls : calls[i].op = "Events.Insert"}

\* the key is absent from the argument object of the request
Absent(key) == req.arguments[key].k = "absent"

\* every field of body b other than visibility whose key is absent from the
\* arguments is absent from b.  Transparency, the working-location properties
\* and the private extended properties are written from the eventType and
\* workingLocation keys; nothing in edit_event writes conference data or
\* focus-time properties.
KeyedFieldsAbsent(b) ==
    /\ Absent("summary") => ~b.summary.has
    /\ Absent("description") => ~b.description.has
    /\ Absent("location") => ~b.location.has
    /\ Absent("start_time") => ~b.start.has
    /\ Absent("end_time") => ~b.end.has
    /\ Absent("attendees") => ~b.attendees.has
    /\ Absent("recurrence") => ~b.recurrence.has
    /\ Absent("colorId") => ~b.colorId.has
    /\ Absent("reminders") => ~b.reminders.has
    /\ Absent("guest_can_modify") => ~b.guestsCanModify.has
    /\ Absent("guest_can_invite_others") => ~b.guestsCanInviteOthers.has
    /\ Absent("guest_can_see_other_guests") => ~b.guestsCanSeeOtherGuests.has
    /\ Absent("eventType") =>
          /\ ~b.eventType.has
          /\ ~b.transparency.has
          /\ \A e \in b.extendedProperties.private : e[1] # "eventType"
    /\ Absent("workingLocation") =>
          /\ ~b.workingLocationProperties.has
          /\ ~b.transparency.has
          /\ \A e \in b.extendedProperties.private :
                e[1] \notin {"workingLocationType", "workingLocationLabel"}
    /\ (Absent("eventType") /\ Absent("workingLocation")) => ~b.extendedProperties.has
    /\ ~b.conferenceData.has
    /\ ~b.focusTimeProperties.has

PatchBodyOf(a) == MarshalEvent(PatchEventBody(parsePatchEventParams(a).params))

\* C6: an edit_event request whose attendees key holds an empty list emits an
\* update that writes the attendees field (clearing it), and that update
\* differs from the one emitted for the same arguments without the key; the
\* same for recurrence.
C6_EmptyListClearsAndIsDistinguishable ==
    ToolCalled({"edit_event"}) =>
        \A i \in PatchCalls :
            /\ req.arguments.attendees = Arr(<<>>) =>
                  /\ calls[i].body.attendees.has
                  /\ calls[i].body # PatchBodyOf([req.arguments EXCEPT !.attendees = ArrAbsent])
            /\ req.arguments.recurrence = Arr(<<>>) =>
                  /\ calls[i].body.recurrence.has
                  /\ calls[i].body # PatchBodyOf([req.arguments EXCEPT !.recurrence = ArrAbsent])

\* the reminders argument carries at least one override
HasOverride ==
    /\ req.arguments.reminders.k = "obj"
    /\ req.arguments.reminders.overrides.k = "arr"
    /\ Len(req.arguments.reminders.overrides.v) >= 1

\* C7: in the event create_event or edit_event emits, reminders that come
\* from at least one override carry useDefault = false whatever use_default
\* the caller gave, and whenever the reminders' useDefault is false the
\* useDefault key is written.
C7_OverridesForceUseDefaultFalse ==
    ToolCalled({"create_event", "edit_event"}) =>
        \A i \in EventCalls :
            /\ HasOverride =>
                  /\ calls[i].body.reminders.has
                  /\ calls[i].body.reminders.useDefault.has
                  /\ calls[i].body.reminders.useDefault.v = FALSE
                  /\ calls[i].body.reminders.overrides.has
            /\ (calls[i].body.reminders.has /\ ~calls[i].body.reminders.useDefault.v) =>
                  calls[i].body.reminders.useDefault.has

\* a create whose reminders ask for use_default true and give an override
C7_Witness ==
    /\ ToolCalled({"create_event"})
    /\ HasOverride
    /\ req.arguments.reminders.use_default = Bool(TRUE)
    /\ \E i \in InsertCalls :
          /\ calls[i].body.reminders.useDefault.has
          /\ ~calls[i].body.reminders.useDefault.v

\* C8: the event create_event or edit_event emits for arguments whose
\* eventType is "workingLocation" has visibility "public", whatever the
\* visibility argument.
C8_WorkingLocationIsPublic ==
    (ToolCalled({"create_event", "edit_event"})
     /\ req.arguments.eventType = Str("workingLocation")) =>
        \A i \in EventCalls :
            /\ calls[i].body.visibility.has
            /\ calls[i].body.visibility.v = "public"

\* an edit that sets eventType workingLocation and visibility private
C8_Witness ==
    /\ ToolCalled({"edit_event"})
    /\ req.arguments.eventType = Str("workingLocation")
    /\ req.arguments.visibility = Str("private")
    /\ \E i \in PatchCalls : calls[i].body.visibility = [has |-> TRUE, v |-> "public"]

\* C9: the event create_event or edit_event emits for arguments whose
\* eventType is "workingLocation" has transparency "transparent", with or
\* without a workingLocation block.
C9_WorkingLocationIsTransparent ==
    (ToolCalled({"create_event", "edit_event"})
     /\ req.arguments.eventType = Str("workingLocation")) =>
        \A i \in EventCalls :
            /\ calls[i].body.transparency.has
            /\ calls[i].body.transparency.v = "transparent"

\* start_time and end_time are both RFC 3339 texts
TimesGiven ==
    /\ req.arguments.start_time.k = "str" /\ ~timeParse(req.arguments.start_time.v).err
    /\ req.arguments.end_time.k = "str" /\ ~timeParse(req.arguments.end_time.v).err

StartBeforeEnd ==
    Before(timeParse(req.arguments.start_time.v).t, timeParse(req.arguments.end_time.v).t)

\* C10: a create_event request whose start_time is not strictly before its
\* end_time gets an error result and makes no call to the calendar service.
C10_StartNotBeforeEndRejected ==
    (ToolCalled({"create_event"}) /\ TimesGiven /\ ~StartBeforeEnd) =>
        /\ calls = <<>>
        /\ response.Result.isError = "true"

\* the arguments the schema of each tool declares as required
Required(name) ==
    CASE name = "create_event" -> {"summary", "start_time", "end_time"}
      [] name \in {"edit_event", "delete_event"} -> {"event_id"}
      [] name = "search_attendees" -> {"query"}
      [] name = "get_attendee_freebusy" -> {"attendee_emails", "time_min", "time_max"}
      [] OTHER -> {}

\* a required argument of the called tool is missing or of another JSON type
RequiredMissing ==
    \E key \in Required(req.name) : req.arguments[key].k \in {"absent", "other"}

\* C11: a call of a tool in which an argument its schema requires is missing
\* or of the wrong type gets an error result (isError true).
C11_RequiredArgumentEnforced ==
    (ToolCalled(tools) /\ RequiredMissing) => response.Result.isError = "true"

\* the response to a delete_event call with a non-empty event_id has been built
DeleteCalled ==
    /\ ToolCalled({"delete_event"})
    /\ req.arguments.event_id.k = "str" /\ req.arguments.event_id.v # ""

\* the deletion calls and the event lookups made by the current handler
DeleteCalls == {i \in DOMAIN calls : calls[i].op = "Events.Delete"}
GetCalls == {i \in DOMAIN calls : calls[i].op = "Events.Get"}

\* C17 as stated: every delete_event request with a non-empty event_id makes
\* exactly one deletion call, and a request whose target does not exist
\* (the lookup or the deletion fails) ends in an error result.
C17_ExactlyOneDeletionCall ==
    DeleteCalled =>
        /\ Cardinality(DeleteCalls) = 1
        /\ CallFailed => response.Result.isError = "true"

\* C17: a delete_event request with a non-empty event_id looks the event up
\* once and makes at most one deletion call: exactly one, after the lookup,
\* when the lookup succeeded and none when it failed; it ends in a success
\* message only when the lookup and the deletion both succeeded, and in an
\* error result otherwise.
C17_OneDeletionCallAfterLookup ==
    DeleteCalled =>
        /\ Cardinality(GetCalls) = 1 /\ calls[1].op = "Events.Get"
        /\ Cardinality(DeleteCalls) = (IF calls[1].ok THEN 1 ELSE 0)
        /\ Len(calls) = Cardinality(GetCalls) + Cardinality(DeleteCalls)
        /\ \A i \in DeleteCalls : calls[i].eventId = req.arguments.event_id.v
        /\ CallFailed => response.Result.isError = "true"
        /\ response.Result.isError = "absent" =>
              (response.Result.text = "Event deleted successfully" /\ ~CallFailed)

\* the lookup of the target failed: no deletion call, an error result
C17_Witness ==
    /\ DeleteCalled
    /\ ~calls[1].ok
    /\ DeleteCalls = {}
    /\ response.Result.isError = "true"

----------------------------------------------------------------------------
\* Properties of overlap detection (checked under SpecOverlaps).

\* the instant a date-time text names, in hours since day 0, 00:00 UTC
Instant(text) == text.day * 24 + text.hour - text.off

\* the ids the detector took into the batch, and the ids it flagged
Included(m) == DOMAIN m
Flagged(m) == {id \in DOMAIN m : m[id]}

\* the event's start is given as a date
AllDay(e) == ~e.Start.nil /\ e.Start.Date.f = "date"

\* half-open intersection of two timed events
Intersect(e, f) ==
    /\ Instant(e.Start.DateTime) < Instant(f.End.DateTime)
    /\ Instant(f.Start.DateTime) < Instant(e.End.DateTime)

\* e is an included, timed event of the batch
Timed(e, m) == e.Id \in Included(m) /\ ~AllDay(e)

\* C12: after a detection, an event of the batch is flagged if and only if
\* it is included and not all-day and the batch holds another included, not
\* all-day event whose time intersects its own (start_e < end_f and
\* start_f < end_e); two events of which one ends when the other starts, with
\* no third event, are both unflagged; nothing outside the batch is flagged.
C12_FlaggedIffIntersectsIncluded ==
    pc = "detected" =>
        /\ \A i \in DOMAIN items :
              Lookup(overlaps, items[i].Id) <=>
                 /\ Timed(items[i], overlaps)
                 /\ \E j \in DOMAIN items \ {i} :
                       Timed(items[j], overlaps) /\ Intersect(items[i], items[j])
        /\ (/\ Len(items) = 2
            /\ Timed(items[1], overlaps) /\ Timed(items[2], overlaps)
            /\ Instant(items[1].End.DateTime) = Instant(items[2].Start.DateTime))
           => Flagged(overlaps) = {}
        /\ Included(overlaps) \subseteq {items[i].Id : i \in DOMAIN items}

\* two events flagged for each other and a third, included and timed, that
\* starts when one of them ends and is not flagged
C12_Witness ==
    /\ pc = "detected"
    /\ \E i, j \in DOMAIN items :
          /\ Lookup(overlaps, items[i].Id)
          /\ Timed(items[j], overlaps)
          /\ ~Lookup(overlaps, items[j].Id)
          /\ Instant(items[i].End.DateTime) = Instant(items[j].Start.DateTime)

\* the orderings of a batch of n events
Perms(n) == {p \in [1..n -> 1..n] : \A i, j \in 1..n : p[i] = p[j] => i = j}

Timely(events) == SelectSeq(events, LAMBDA e : ~AllDay(e))

\* C14: a detection flags no all-day event; every event it flags intersects
\* an included event that is not all-day; and it flags exactly the events it
\* flags when the all-day events are taken out of the batch and the same
\* other events are included.
C14_AllDayNeverOverlaps ==
    [][detectOverlaps =>
        /\ \A i \in DOMAIN items : AllDay(items[i]) => ~Lookup(overlaps', items[i].Id)
        /\ \A i \in DOMAIN items :
              Lookup(overlaps', items[i].Id) =>
                 \E j \in DOMAIN items \ {i} :
                    Timed(items[j], overlaps') /\ Intersect(items[i], items[j])
        /\ LET d == DetectOverlaps(Timely(items), ShowDeclined,
                                    Identity(cachedUserEmail, fetchFails))
               allDayIds == {items[i].Id : i \in {k \in DOMAIN items : AllDay(items[k])}}
           IN  Included(d.overlaps) = Included(overlaps') \ allDayIds
                  => Flagged(d.overlaps) = Flagged(overlaps')
    ]_vars

\* an included all-day event on the day of a timed event, neither flagged
C14_Witness ==
    /\ pc = "detected"
    /\ \E i, j \in DOMAIN items :
          /\ AllDay(items[i]) /\ items[i].Id \in Included(overlaps)
          /\ Timed(items[j], overlaps)
          /\ items[i].Start.Date.day = items[j].Start.DateTime.day
          /\ ~Lookup(overlaps, items[i].Id) /\ ~Lookup(overlaps, items[j].Id)

----------------------------------------------------------------------------
\* Properties of list_events (checked under SpecList).

\* the response to a list_events call that succeeded has been built
Listed == ToolCalled({"list_events"}) /\ response.Result.isError = "absent"

\* the events shown by the result
Shown == response.Result.listing.events

\* the ids of a sequence of events, of fetched events and of shown ones
IdsOf(events) == [i \in DOMAIN events |-> events[i].Id]
ShownIds == [i \in DOMAIN Shown |-> Shown[i].id]

\* the overlapping_event_ids of a shown event, as a set ({} if the key is absent)
OverlapSet(e) == {e.overlapping_event_ids.v[k] : k \in DOMAIN e.overlapping_event_ids.v}

\* C15: in a JSON result with overlap detection on, every shown event has a
\* has_overlap that is true exactly when its overlapping_event_ids key is
\* present and holds an id; B is in A's ids exactly when A is in B's; and
\* every id in a set is the id of a shown event whose has_overlap is true.
C15_OverlapOutputConsistent ==
    (/\ Listed
     /\ response.Result.listing.format = "json"
     /\ getBoolOrDefault(req.arguments.detect_overlaps, TRUE))
    => /\ \A i \in DOMAIN Shown :
             /\ Shown[i].has_overlap \in {"true", "false"}
             /\ Shown[i].has_overlap = "true" <=>
                    (Shown[i].overlapping_event_ids.has /\ OverlapSet(Shown[i]) # {})
       /\ \A i, j \in DOMAIN Shown :
             Shown[j].id \in OverlapSet(Shown[i]) <=> Shown[i].id \in OverlapSet(Shown[j])
       /\ \A i \in DOMAIN Shown : \A id \in OverlapSet(Shown[i]) :
             \E j \in DOMAIN Shown : Shown[j].id = id /\ Shown[j].has_overlap = "true"

\* three shown events: the first and the second each overlap the third only,
\* the third overlaps both
C15_Witness ==
    /\ Listed
    /\ response.Result.listing.format = "json"
    /\ Len(Shown) = 3
    /\ OverlapSet(Shown[1]) = {Shown[3].id}
    /\ OverlapSet(Shown[2]) = {Shown[3].id}
    /\ OverlapSet(Shown[3]) = {Shown[1].id, Shown[2].id}

\* the caller's own attendee entry of the event says "declined"
DeclinedByCaller(e) ==
    \E i \in DOMAIN e.Attendees :
       e.Attendees[i].Email = UserEmail /\ e.Attendees[i].ResponseStatus = "declined"

\* the fetched events list_events is to return, in their original order
Expected ==
    IF getBoolOrDefault(req.arguments.show_declined, FALSE) THEN items
    ELSE SelectSeq(items, LAMBDA e : ~DeclinedByCaller(e))

\* C16: a list_events result shows exactly the fetched events the caller has
\* not declined (all fetched events with show_declined true): the JSON result
\* in their original order, the text result the same events grouped by date;
\* in every state of the identity cache and of the identity fetch.
C16_DeclinedFilterIsCallersOwn ==
    Listed =>
        IF response.Result.listing.format = "json"
        THEN ShownIds = IdsOf(Expected)
        ELSE /\ {ShownIds[i] : i \in DOMAIN ShownIds} = {Expected[i].Id : i \in DOMAIN Expected}
             /\ Len(ShownIds) = Len(Expected)

----------------------------------------------------------------------------
\* Properties of the dispatcher and of the registry (checked under Spec).

\* input line k is a request read after an initialize request
AfterInitialize(k) ==
    \E j \in 1..(k - 1) : input[j] = [kind |-> "request", method |-> "initialize"]

\* the responses a server that has handled nothing yet builds for the request
\* r: read off r and the tools registered at startup, one per answer of the
\* calendar service when a tool is called
Dispatched(r) ==
    CASE r.Method = "initialize" ->
            {IF r.Params = "bad"
             THEN ErrorResponse(r.ID, InvalidParamsCode, "Invalid params", "", TRUE)
             ELSE ResultResponse(r.ID, [NilResult EXCEPT !.kind = "initialize"])}
      [] r.Method \in {"initialized", "shutdown"} ->
            {ResultResponse(r.ID, [NilResult EXCEPT !.kind = "empty"])}
      [] r.Method = "tools/list" ->
            {ResultResponse(r.ID, [NilResult EXCEPT !.kind = "tools", !.tools = GetTools])}
      [] r.Method = "tools/call" ->
            IF r.Params # "ok"
            THEN {ErrorResponse(r.ID, InvalidParamsCode, "Invalid params", "", TRUE)}
            ELSE IF r.name \notin GetTools
            THEN {ErrorResponse(r.ID, InvalidParamsCode, "Unknown tool", r.name, FALSE)}
            ELSE {ResultResponse(r.ID, CallToolResult(o)) : o \in HandleTool(r.name, r.arguments)}
      [] OTHER ->
            {ErrorResponse(r.ID, MethodNotFoundCode, "Method not found", "", FALSE)}

\* C21: the response built for a request is one a server that has handled
\* nothing yet builds for the same request, whatever was read before it: with
\* or without an initialize before a tools/list or a tools/call, and for an
\* initialize that follows any number of initialize requests.
C21_DispatchIgnoresHistory ==
    (pc = "send" /\ line.kind = "request") => response \in Dispatched(req)

\* a second initialize with the id and the params of the first has been
\* answered, and the two responses written are the same result
C21_Witness ==
    /\ pc = "scan"
    /\ Len(input) = 2
    /\ input[1] = [kind |-> "request", method |-> "initialize"]
    /\ input[2] = [kind |-> "request", method |-> "initialize"]
    /\ Len(out) = 2
    /\ out[1].resp.hasResult /\ out[1].resp.result.kind = "initialize"
    /\ out[2].resp = out[1].resp

\* C22: the registry is at every point of a session the set of tools
\* registered at startup, and the response built for a tools/list request is
\* a result that lists exactly that set, whatever was read before.
C22_ListIsWholeRegistry ==
    /\ tools = GetTools
    /\ (pc = "send" /\ line.kind = "request" /\ req.Method = "tools/list") =>
          /\ MarshalResponse(response).hasResult
          /\ ~MarshalResponse(response).hasError
          /\ response.Result.kind = "tools"
          /\ response.Result.tools = GetTools

\* a tools/list answered with the whole registry after a tool was called
C22_Witness ==
    /\ pc = "scan"
    /\ Len(input) = 2
    /\ input[1] = [kind |-> "request", method |-> "tools/call"]
    /\ 1 \in invoked
    /\ input[2] = [kind |-> "request", method |-> "tools/list"]
    /\ Len(out) = 2
    /\ out[2].resp.hasResult /\ out[2].resp.result.tools = GetTools

\* the six operations the tool surface is said to consist of
SixOperations == {"create_event", "edit_event", "delete_event",
                  "search_attendees", "get_attendee_freebusy", "list_events"}

\* the tool handler is entered for the tools/call request being answered
\* exactly when its tool name is one of `names`, and a name outside is
\* answered with the unknown-tool error
AcceptedAre(names) ==
    (pc = "send" /\ CallRequest) =>
        /\ lineNo \in invoked <=> req.name \in names
        /\ req.name \notin names =>
              (response.Error.code = InvalidParamsCode /\ response.Error.tool = req.name)

----------------------------------------------------------------------------
\* Properties of the identity cache (checked under SpecSession).

\* the identity fetches that were answered
Successes == {i \in DOMAIN fetches : fetches[i]}

\* the request being handled asks for the identity: it lists an event with
\* attendees and filters declined events or detects overlaps
NeedsIdentity ==
    /\ \E i \in DOMAIN items : Len(items[i].Attendees) > 0
    /\ \/ ~getBoolOrDefault(req.arguments.show_declined, FALSE)
       \/ getBoolOrDefault(req.arguments.detect_overlaps, TRUE)

\* the cache holds the identity exactly when a fetch was answered, at most
\* one fetch was answered, and it is the last fetch issued
FetchedOnce ==
    /\ cachedUserEmail \in {"", UserEmail}
    /\ cachedUserEmail # "" <=> Successes # {}
    /\ Successes \subseteq {Len(fetches)}

\* C24: over a session of requests, the identity is fetched only by a step
\* that handles a request needing it while the cache is empty (a request that
\* does not need it issues no fetch); once the cache holds the identity no
\* step issues a fetch or changes the cache; at most one fetch is ever
\* answered and none is issued after it.  Fetches the service fails leave the
\* cache empty and are repeated at the next need.
C24_IdentityFetchedOnceThenReused ==
    [][/\ FetchedOnce'
       /\ cachedUserEmail # "" => (cachedUserEmail' = cachedUserEmail /\ fetches' = fetches)
       /\ fetches' # fetches =>
             (Decoded /\ CallRequest /\ NeedsIdentity /\ cachedUserEmail = "")
       /\ (fetches = <<>> /\ fetchFails = 0 /\ Decoded /\ NeedsIdentity /\ Listed') =>
             fetches' = <<TRUE>>
      ]_vars

\* the identity was fetched once in the whole session: a first request
\* detected overlaps among events with attendees and a second one, handled
\* now, did so too
C24_Witness ==
    /\ pc = "send" /\ lineNo = 2
    /\ fetches = <<TRUE>>
    /\ Len(out) = 1
    /\ Len(out[1].resp.result.listing.events) = 2
    /\ out[1].resp.result.listing.events[1].has_overlap = "true"
    /\ Len(response.Result.listing.events) = 2
    /\ response.Result.listing.events[1].has_overlap = "true"

----------------------------------------------------------------------------
\* Properties of the events create_event and edit_event emit (checked under
\* SpecTool).

\* the response to a create_event call whose eventType is "focusTime" and
\* whose arguments give no decline message, or an empty one, has been built
FocusTimeWithoutMessage ==
    /\ ToolCalled({"create_event"})
    /\ req.arguments.eventType = Str("focusTime")
    /\ getStringOrDefault(req.arguments.focusTimeProperties.declineMessage, "") = ""

Mode(endpoint) ==
    IF endpoint.date.has /\ ~endpoint.dateTime.has THEN "date"
    ELSE IF endpoint.dateTime.has /\ ~endpoint.date.has THEN "dateTime"
    ELSE "none"

SameMode(start, end) == Mode(start) = Mode(end) /\ Mode(start) # "none"

\* the events an edit may target, as the service stores them: a timed event
\* and an all-day event
StoredEvents ==
    {MarshalEvent([ZeroEvent EXCEPT !.Start = TimedAt(1, 1, 0), !.End = TimedAt(1, 2, 0)]),
     MarshalEvent([ZeroEvent EXCEPT !.Start = AllDayOn(1), !.End = AllDayOn(2)])}

\* an endpoint of the stored event after Events.Patch: an endpoint the update
\* does not write is left as it is
AfterPatch(stored, written) == IF written.has THEN written ELSE stored

\* C26: the event a successful create_event inserts has a start and an end
\* that each carry exactly one of date and dateTime, both the same one; and
\* after a successful edit_event, whatever single-mode event it targeted, the
\* event's start and end each carry exactly one of them, both the same one.
C26_StartAndEndShareMode ==
    ToolCalled({"create_event", "edit_event"}) =>
        /\ \A i \in InsertCalls :
              calls[i].ok =>
                 /\ calls[i].body.start.has /\ calls[i].body.end.has
                 /\ SameMode(calls[i].body.start, calls[i].body.end)
        /\ \A i \in PatchCalls :
              calls[i].ok =>
                 \A e \in StoredEvents :
                    SameMode(AfterPatch(e.start, calls[i].body.start),
                             AfterPatch(e.end, calls[i].body.end))

\* C27: the attendees of the event create_event or edit_event emits carry no
\* email twice, whatever attendees array the arguments give.
C27_AttendeeEmailsUnique ==
    ToolCalled({"create_event", "edit_event"}) =>
        \A i \in EventCalls :
            \A j, k \in DOMAIN calls[i].body.attendees.v :
                j # k => calls[i].body.attendees.v[j].Email # calls[i].body.attendees.v[k].Email

\* the update writes `field` with the value the arguments give under a key
\* that holds a value of the type read
Replaces(field, val, type) == val.k = type => field = [has |-> TRUE, v |-> val.v]

\* C28: in the update an edit_event request emits, summary, description,
\* location, colorId, visibility and guest_can_modify are each written with
\* the value the arguments give, the empty string and false included
\* (visibility aside when the arguments set eventType to "workingLocation",
\* which writes "public").
C28_PresentValueReplacesField ==
    ToolCalled({"edit_event"}) =>
        \A i \in PatchCalls :
            /\ Replaces(calls[i].body.summary, req.arguments.summary, "str")
            /\ Replaces(calls[i].body.description, req.arguments.description, "str")
            /\ Replaces(calls[i].body.location, req.arguments.location, "str")
            /\ Replaces(calls[i].body.colorId, req.arguments.colorId, "str")
            /\ req.arguments.eventType # Str("workingLocation") =>
                  Replaces(calls[i].body.visibility, req.arguments.visibility, "str")
            /\ Replaces(calls[i].body.guestsCanModify, req.arguments.guest_can_modify, "bool")

\* the response to an edit_event call has been built; the event_id it gives
\* is a non-empty string
EditCalled == ToolCalled({"edit_event"})
ValidEventId == req.arguments.event_id.k = "str" /\ req.arguments.event_id.v # ""

\* C29: an edit_event request makes at most one patch call, and makes it only
\* as its second call, after a lookup of the same event that succeeded, with
\* a valid event_id and arguments that parse.  An invalid event_id ends in an
\* error result with no call at all; a failed lookup or arguments that do
\* not parse end in an error result with the lookup as the only call (so the
\* lookup comes before the parsing); a failed patch ends in an error result.
C29_PatchOnlyAfterValidationLookupParse ==
    EditCalled =>
        /\ Cardinality(PatchCalls) <= 1
        /\ PatchCalls # {} =>
              /\ ValidEventId /\ ~InvalidTime
              /\ Len(calls) = 2 /\ PatchCalls = {2}
              /\ calls[1].op = "Events.Get" /\ calls[1].ok
              /\ calls[1].eventId = req.arguments.event_id.v
              /\ calls[2].eventId = req.arguments.event_id.v
        /\ ~ValidEventId => (calls = <<>> /\ response.Result.isError = "true")
        /\ (ValidEventId /\ (InvalidTime \/ ~calls[1].ok)) =>
              /\ Len(calls) = 1 /\ calls[1].op = "Events.Get"
              /\ response.Result.isError = "true"
        /\ CallFailed => response.Result.isError = "true"
        /\ response.Result.isError = "absent" => (PatchCalls = {2} /\ calls[2].ok)

\* an edit whose start_time does not parse: the event was looked up, no
\* patch call was made, the result is an error
C29_Witness ==
    /\ EditCalled /\ ValidEventId
    /\ BadTime(req.arguments.start_time)
    /\ Len(calls) = 1 /\ calls[1].op = "Events.Get" /\ calls[1].ok
    /\ response.Result.isError = "true"

----------------------------------------------------------------------------
\* Properties of the registry and the tool handler together (checked under
\* Spec).

\* the text of the error HandleTool returns for a name without a case
UnknownToolOfHandler == "unknown tool"

\* C30: the registry is the set registered at startup for the whole run; a
\* tools/call request enters the tool handler exactly when its name is in
\* the registry, and then no outcome of the handler for the request is its
\* "unknown tool" error; no response built or written carries that error.
C30_HandlerKnowsEveryRegisteredTool ==
    /\ tools = GetTools
    /\ (pc = "send" /\ CallRequest) =>
          /\ lineNo \in invoked <=> req.name \in tools
          /\ lineNo \in invoked =>
                /\ response.Result.text # UnknownToolOfHandler
                /\ \A o \in HandleTool(req.name, req.arguments) :
                      o.err # UnknownToolOfHandler
    /\ \A i \in 1..Len(out) :
          out[i].resp.hasResult => out[i].resp.result.text # UnknownToolOfHandler

\* the second line of a run calls a registered tool and is answered by its
\* handler, after a first line whose tool name the registry refused
C30_Witness ==
    /\ pc = "send" /\ CallRequest /\ lineNo = 2
    /\ req.name \in tools /\ invoked = {2}
    /\ response.Result.kind = "call"
    /\ Len(out) = 1 /\ out[1].resp.hasError
    /\ out[1].resp.error.message = "Unknown tool"

====
